---- MODULE Spec2Model ----
(***************************************************************************)
(* Model of the RetrOS-Web background service worker                       *)
(* (src/src/background/background.js): the approval state machine, the     *)
(* chrome.storage.local 'sites' record store and the message handlers that *)
(* read and write it.  Every chrome.storage.local.get / set callback is    *)
(* one step, so the model interleaves the handlers exactly where the       *)
(* event loop can interleave them.                                         *)
(***************************************************************************)
EXTENDS Integers, Sequences, FiniteSets, TLC

\* ---------------------------------------------------------------- bounds
NumDomains == 2      \* domains the requests are about
MaxReq     == 2      \* messages / startup events handled in one behaviour
MaxClock   == 2      \* distinct values of new Date()
NumTabs    == 2      \* browser tabs
MaxInject  == 3      \* style elements the content script creates
MaxSummary == 2      \* entries of a page summary

Domains == 1..NumDomains
NoDomain == 0        \* payload.domain is undefined

Tabs == 1..NumTabs
NoTab == 0           \* currentTabId is null

\* ------------------------------------------------------- approval states
Absent == "absent"   \* a field that the stored object does not have

APPROVAL_STATES == {"pending", "approved", "rejected", "processing"}

\* values approvalStatus can hold in storage: the canonical ones, a missing
\* field, the empty string, 'unknown' and some other legacy string
StoredValues == APPROVAL_STATES \cup {Absent, "", "unknown", "legacy"}

\* variant of the table in which approved is not terminal
APPROVAL_TRANSITIONS_ApprovedReopens(from) ==
  CASE from = "pending"    -> {"approved", "rejected", "processing"}
    [] from = "rejected"   -> {"processing", "pending"}
    [] from = "processing" -> {"pending", "rejected"}
    [] from = "approved"   -> {"pending"}
    [] OTHER               -> {}

APPROVAL_TRANSITIONS(from) ==
  CASE from = "pending"    -> {"approved", "rejected", "processing"}
    [] from = "rejected"   -> {"processing", "pending"}
    [] from = "processing" -> {"pending", "rejected"}
    [] from = "approved"   -> {}
    [] OTHER               -> {}

\* variant that lets a non-empty stored value through without looking it up
normalizeApprovalState_PassThrough(state) ==
  IF state = Absent \/ state = "" THEN "pending" ELSE state

normalizeApprovalState(state) ==
  IF state = Absent \/ state = "" THEN "pending"
  ELSE IF state \in APPROVAL_STATES THEN state
  ELSE IF state = "unknown" THEN "pending"
  ELSE "pending"

\* variant that accepts every canonical target, whatever the current state
canTransitionApproval_IgnoresFrom(fromState, toState) ==
  toState \in {"pending", "approved", "rejected", "processing"}

canTransitionApproval(fromState, toState) ==
  LET from == normalizeApprovalState(fromState)
  IN  IF from = toState THEN FALSE
      ELSE toState \in APPROVAL_TRANSITIONS(from)

\* ------------------------------------------------------------ the store
\* one value of the 'sites' object per domain; present = FALSE is a domain
\* that is not a key of the object (getSite then yields {})
\* css and feedbackHistory are the fields the cache entry of the design
\* holds; no setSite call of the worker carries either of them
NoSite ==
  [present |-> FALSE, approvalStatus |-> Absent, approvalUpdatedAt |-> 0,
   approvedAt |-> 0, rejectedAt |-> 0, cacheStatus |-> Absent,
   css |-> Absent, feedbackHistory |-> <<>>]

EmptySites == [d \in Domains |-> NoSite]

\* variant that replaces the record by the data instead of merging
Assign_Replace(site, data) ==
  [f \in DOMAIN site |->
     IF f = "present" THEN TRUE
     ELSE IF f \in DOMAIN data THEN data[f] ELSE NoSite[f]]

\* Object.assign({}, site, data)
Assign(site, data) ==
  [f \in DOMAIN site |->
     IF f = "present" THEN TRUE
     ELSE IF f \in DOMAIN data THEN data[f] ELSE site[f]]

\* sites[domain] = Object.assign({}, sites[domain] || {}, data)
setSiteMerge(all, domain, data) ==
  [all EXCEPT ![domain] = Assign(all[domain], data)]

\* variant that also puts interrupted generations back to pending
normalizeAll_ResetsProcessing(all) ==
  [d \in Domains |->
     IF all[d].present
     THEN [all[d] EXCEPT !.approvalStatus =
             IF @ = "processing" THEN "pending" ELSE normalizeApprovalState(@)]
     ELSE all[d]]

\* the forEach of normalizeStoredStates
normalizeAll(all) ==
  [d \in Domains |->
     IF all[d].present
     THEN [all[d] EXCEPT !.approvalStatus = normalizeApprovalState(all[d].approvalStatus)]
     ELSE all[d]]

VARIABLES
  sites,            \* chrome.storage.local 'sites'
  reqs,             \* the messages and startup events handled so far
  now,              \* the clock behind new Date()
  generatorLoaded,  \* typeof generateStyle !== 'undefined'
  settings,         \* chrome.storage.local 'settings'
  currentTabId,     \* background.js: let currentTabId
  tabs,             \* the browser's tabs: "new" (not opened yet), "open", "closed"
  activated,        \* the tab of the last tabs.onActivated event
  document,         \* the page of the content script: its readiness, its
                    \* style elements in document order, and the elements
                    \* held by DOMContentLoaded listeners
  injectedStyleElement,  \* popup.js: let injectedStyleElement
  lastInjected,     \* the css of the last injectCSS call for each id
  injectCount,      \* style elements created so far
  approvalBannerHost,     \* popup.js: let approvalBannerHost (0: null)
  approvalBannerVisible,  \* popup.js: let approvalBannerVisible
  banner,           \* the rest of the banner script's state and its page
  currentDomain,    \* popup.js: let currentDomain
  currentEra,       \* popup.js: let currentEra
  feedbackOpen,     \* popup.js: let feedbackOpen
  selectedFeedback, \* popup.js: let selectedFeedback
  popup             \* the popup's document and the position of its scripts

\* the state of the tab listeners and of the content script
tabVars == <<currentTabId, tabs, activated>>
pageVars == <<document, injectedStyleElement, lastInjected, injectCount>>
\* the state of the approval banner and of the popup
uiVars == <<approvalBannerHost, approvalBannerVisible, banner,
            currentDomain, currentEra, feedbackOpen, selectedFeedback, popup>>

vars == <<sites, reqs, now, generatorLoaded, settings, tabVars, pageVars,
          uiVars>>


\* ------------------------------------------------------------- requests
\* era identifiers; NoEra is a payload or a settings object without one
Eras == {"Windows 95", "Windows XP"}
NoEra == ""

MessageTypes ==
  {"APPROVE_STYLE", "REJECT_STYLE", "REGENERATE_STYLE", "GENERATE_STYLE",
   "APPLY_STYLE", "GET_SITE_STATUS"}

\* the handlers that start with transitionApprovalState once the payload
\* has been validated, and the state each one asks for
TransitionTypes ==
  {"APPROVE_STYLE", "REJECT_STYLE", "REGENERATE_STYLE", "GENERATE_STYLE"}

GenerationTypes == {"REGENERATE_STYLE", "GENERATE_STYLE"}

TargetOf(type) ==
  CASE type = "APPROVE_STYLE"    -> "approved"
    [] type = "REJECT_STYLE"     -> "rejected"
    [] type = "REGENERATE_STYLE" -> "processing"
    [] type = "GENERATE_STYLE"   -> "processing"
    [] type = "APPLY_STYLE"      -> "pending"
    [] OTHER                     -> "none"

NoResp ==
  [success |-> "none", error |-> "", from |-> "", to |-> "", status |-> "",
   cache |-> ""]

Success(status) == [NoResp EXCEPT !.success = "true", !.status = status]
Failure(code)   == [NoResp EXCEPT !.success = "false", !.error = code]

\* { success: false, error: `Invalid approval transition ${cur} -> ${next}` }
InvalidTransition(cur, next) ==
  [NoResp EXCEPT !.success = "false", !.error = "Invalid approval transition",
                 !.from = cur, !.to = next]

\* a message (or startup event) being handled.
\*   pc   position of the handler outside the storage helpers
\*   pcT  position inside transitionApprovalState
\*   pcS  position inside the handler's own setSite call
\*   bufT, bufS  the 'sites' object handed to chrome.storage.local.set
\*   cur  the normalized state transitionApprovalState / GET_SITE_STATUS read
\*   tsT, tsS  the new Date() values of the two updates
\*   gen  the generateStyle promise of this request
\*   nresp  how many times sendResponse was called
\*   writes  how many chrome.storage.local.set calls of this request completed
\*   hadEntry  whether getSite found a record when the edge was checked
\*   era, feedback  payload.era and payload.feedback ("none": not in the
\*             payload; "empty": neither preset nor text; "given")
\*   value  message.value of SET_SETTING
\*   lost  how many chrome.storage.local.set calls of this request failed
\*   valid  whether the payload carries what the handler validates
\*   textLen  the length of payload.feedback.text
\*   tab  the tabId handed to sendMessageToTab
\*   sentTo  the tab chrome.tabs.sendMessage delivered the css to
\*   summary, domDigest  the page summary the sender fingerprinted and
\*             payload.domDigest
NewReq(type, domain) ==
  [type |-> type, domain |-> domain, pc |-> "none", pcT |-> "idle",
   pcS |-> "idle", bufT |-> EmptySites, bufS |-> EmptySites, cur |-> "",
   tsT |-> 0, tsS |-> 0, gen |-> "none", resp |-> NoResp, nresp |-> 0,
   writes |-> 0, hadEntry |-> FALSE, era |-> NoEra, feedback |-> "none",
   value |-> NoEra, lost |-> 0, valid |-> TRUE, textLen |-> 0,
   tab |-> NoTab, sentTo |-> NoTab, summary |-> <<>>, domDigest |-> 0]

Respond(r, resp) == [r EXCEPT !.resp = resp, !.nresp = @ + 1]

\* new Date(): the clock does not run backwards
Stamps(n) == {n} \cup (IF n < MaxClock THEN {n + 1} ELSE {})

Reqs == 1..Len(reqs)

\* ---------------------------------------------------------------- Init
\* Storage outlives the worker: it may already hold records written by an
\* earlier version, whose approvalStatus is 'unknown'.
LegacySite == [NoSite EXCEPT !.present = TRUE, !.approvalStatus = "unknown"]

\* the worker has seen no tab event yet
InitTabs ==
  /\ currentTabId = NoTab
  /\ tabs = [t \in Tabs |-> "new"]
  /\ activated = NoTab

\* the content script has just been loaded into a page
StyleIds == {"retros-web-style", "custom"}
InitPage ==
  /\ document = [ready |-> "none", styles |-> <<>>, listeners |-> <<>>]
  /\ injectedStyleElement = 0
  /\ lastInjected = [id \in StyleIds |-> Absent]
  /\ injectCount = 0

\* the era cards of the popup, in document order, by their data-era
\* (BACKLOG.md US-1.3: 90s, Win95, Win98, WinXP)
EraCards == <<"90s", "Win95", "Win98", "WinXP">>
Cards == 1..Len(EraCards)

\* the preset buttons of the feedback form, by their data-feedback
\* (BACKLOG.md US-3.2)
FeedbackPresets ==
  {"too_modern", "too_simple", "simplify_layout", "make_usable", "regenerate"}

\* the textarea's value: its length, and whether it is whitespace only
EmptyText == [len |-> 0, blank |-> TRUE]

\* the banner script has just been loaded into a page (popup.js 731-732)
InitBannerState ==
  /\ approvalBannerHost = 0
  /\ approvalBannerVisible = FALSE
  /\ banner = [pc |-> "start", domain |-> NoDomain, req |-> 0,
               approvalStatus |-> "", cacheStatus |-> "", era |-> NoEra,
               observer |-> "none", hosts |-> {}, created |-> 0,
               pending |-> {}, feedbackHidden |-> TRUE]

\* the popup's document and the position of its scripts.
\*   pc       position of initializePopup: "start", awaiting "tab",
\*            "status" or "settings", "done" (setupEventListeners has run)
\*   eraInit  the setTimeout of initEraSelection: "none", "pending", "done"
\*   checked  the era cards whose aria-checked is 'true'
\*   answered the selectedEra of the GET_SETTINGS response ("none": no
\*            response yet)
\*   lastEvent  the last click or key press an era card handled
\*   selected the preset buttons with class 'selected'
\*   text     the value of the feedback textarea
\*   counter, classes  the text of #char-count and the classes of its parent
\*   regen    the REGENERATE_STYLE requests regenerateStyle is awaiting
NoEvent == [card |-> 0, key |-> "none"]
NewPopup ==
  [pc |-> "start", eraInit |-> "none", checked |-> {}, answered |-> "none",
   lastEvent |-> NoEvent, selected |-> {}, text |-> EmptyText,
   counter |-> 0, classes |-> {}, regen |-> {}]

\* the popup script has just been loaded (popup.js 15-18); no era card is
\* checked yet
InitPopupState ==
  /\ currentDomain = NoDomain
  /\ currentEra = ""
  /\ feedbackOpen = FALSE
  /\ selectedFeedback = Absent
  /\ popup = NewPopup

InitUI == InitBannerState /\ InitPopupState

Init ==
  /\ \E S \in SUBSET Domains :
       sites = [d \in Domains |-> IF d \in S THEN LegacySite ELSE NoSite]
  /\ reqs = <<>>
  /\ now = 1
  /\ generatorLoaded \in BOOLEAN
  /\ settings = [selectedEra |-> NoEra]
  /\ InitTabs
  /\ InitPage
  /\ InitUI

\* ------------------------------------------------- onMessage: sync part
\* what the listener does before its first callback (lines 128-409).
\* full: the payload carries what the handler validates (css for
\* APPLY_STYLE; domain, era and domDigest for GENERATE_STYLE; domain for
\* GET_SITE_STATUS).  An APPLY_STYLE payload may lack the domain (NoDomain).
\* variant in which REGENERATE_STYLE calls generateStyle before it asks for
\* the transition to processing
onMessage_GeneratesFirst(type, domain, full) ==
  LET r == NewReq(type, domain) IN
  CASE type \in {"APPROVE_STYLE", "REJECT_STYLE"} -> [r EXCEPT !.pcT = "get"]
    [] type = "REGENERATE_STYLE" ->
         [r EXCEPT !.pcT = "get",
                   !.gen = IF generatorLoaded THEN "inflight" ELSE "none"]
    [] type = "GENERATE_STYLE" ->
         IF ~full THEN Respond([r EXCEPT !.valid = FALSE],
                               Failure("Missing required fields"))
         ELSE IF ~generatorLoaded
              THEN Respond(r, Failure("Proxy client module not loaded"))
              ELSE [r EXCEPT !.pcT = "get"]
    [] type = "APPLY_STYLE" ->
         IF ~full THEN Respond([r EXCEPT !.valid = FALSE],
                               Failure("Missing css in payload"))
         ELSE [r EXCEPT !.pc = "send"]
    [] type = "GET_SITE_STATUS" ->
         IF ~full THEN Respond([r EXCEPT !.domain = NoDomain, !.valid = FALSE],
                               Failure("Missing domain"))
         ELSE [r EXCEPT !.pc = "qget"]

\* variant in which APPLY_STYLE goes on to the tab after it has answered
\* 'Missing css in payload'
onMessage_NoReturn(type, domain, full) ==
  LET r == NewReq(type, domain) IN
  CASE type \in {"APPROVE_STYLE", "REJECT_STYLE", "REGENERATE_STYLE"} ->
         [r EXCEPT !.pcT = "get"]
    [] type = "GENERATE_STYLE" ->
         IF ~full THEN Respond([r EXCEPT !.valid = FALSE],
                               Failure("Missing required fields"))
         ELSE IF ~generatorLoaded
              THEN Respond(r, Failure("Proxy client module not loaded"))
              ELSE [r EXCEPT !.pcT = "get"]
    [] type = "APPLY_STYLE" ->
         IF ~full THEN Respond([r EXCEPT !.valid = FALSE, !.pc = "send"],
                               Failure("Missing css in payload"))
         ELSE [r EXCEPT !.pc = "send"]
    [] type = "GET_SITE_STATUS" ->
         IF ~full THEN Respond([r EXCEPT !.domain = NoDomain, !.valid = FALSE],
                               Failure("Missing domain"))
         ELSE [r EXCEPT !.pc = "qget"]

onMessage(type, domain, full) ==
  LET r == NewReq(type, domain) IN
  CASE type \in {"APPROVE_STYLE", "REJECT_STYLE", "REGENERATE_STYLE"} ->
         [r EXCEPT !.pcT = "get"]
    [] type = "GENERATE_STYLE" ->
         IF ~full THEN Respond([r EXCEPT !.valid = FALSE],
                               Failure("Missing required fields"))
         ELSE IF ~generatorLoaded
              THEN Respond(r, Failure("Proxy client module not loaded"))
              ELSE [r EXCEPT !.pcT = "get"]
    [] type = "APPLY_STYLE" ->
         IF ~full THEN Respond([r EXCEPT !.valid = FALSE],
                               Failure("Missing css in payload"))
         ELSE [r EXCEPT !.pc = "send"]
    [] type = "GET_SITE_STATUS" ->
         IF ~full THEN Respond([r EXCEPT !.domain = NoDomain, !.valid = FALSE],
                               Failure("Missing domain"))
         ELSE [r EXCEPT !.pc = "qget"]

Receive(type, domain, full) ==
  /\ Len(reqs) < MaxReq
  /\ reqs' = Append(reqs, onMessage(type, domain, full))
  /\ UNCHANGED <<tabVars, pageVars, uiVars, sites, now, generatorLoaded, settings>>

\* onStartup / onInstalled: normalizeStoredStates issues its get
Startup ==
  /\ Len(reqs) < MaxReq
  /\ reqs' = Append(reqs, [NewReq("STARTUP", 1) EXCEPT !.pc = "nget"])
  /\ UNCHANGED <<tabVars, pageVars, uiVars, sites, now, generatorLoaded, settings>>


\* ------------------------------------------- transitionApprovalState
\* { approvalStatus: nextState, approvalUpdatedAt: new Date() }
TransitionUpdate(r) ==
  [approvalStatus |-> TargetOf(r.type), approvalUpdatedAt |-> r.tsT]

\* the data of the handler's own setSite call
SiteData(r) ==
  CASE r.type = "APPROVE_STYLE"    -> [approvedAt |-> r.tsS]
    [] r.type = "REJECT_STYLE"     -> [rejectedAt |-> r.tsS]
    [] r.type = "REGENERATE_STYLE" -> [cacheStatus |-> "regenerating"]
    [] r.type = "GENERATE_STYLE"   -> [cacheStatus |-> "processing"]
    [] r.type = "APPLY_STYLE"      -> [cacheStatus |-> "applied"]
    [] r.type = "GET_SITE_STATUS"  -> [approvalStatus |-> r.cur]

\* variant without the return after the refusal: the update is written anyway
onRefused_NoReturn(r, cur) ==
  IF r.type \in TransitionTypes
  THEN Respond([r EXCEPT !.pcT = "sget", !.cur = cur],
               InvalidTransition(cur, TargetOf(r.type)))
  ELSE [r EXCEPT !.pcT = "sget", !.cur = cur]

\* the callback a handler hands to transitionApprovalState, on
\* result.success = false: the four transition handlers answer with the
\* error, APPLY_STYLE passes () => {}
onRefused(r, cur) ==
  IF r.type \in TransitionTypes
  THEN Respond([r EXCEPT !.pcT = "refused", !.cur = cur],
               InvalidTransition(cur, TargetOf(r.type)))
  ELSE [r EXCEPT !.pcT = "refused", !.cur = cur]

\* ... and on result.success = true: the four transition handlers go on
\* with their own setSite, APPLY_STYLE passes () => {}
onTransitioned(r, ts) ==
  IF r.type \in TransitionTypes
  THEN [r EXCEPT !.pcT = "done", !.bufT = EmptySites, !.writes = @ + 1,
                 !.pcS = "get", !.tsS = ts]
  ELSE [r EXCEPT !.pcT = "done", !.bufT = EmptySites, !.writes = @ + 1]

\* the getSite callback of transitionApprovalState (lines 169-188): the
\* edge is checked against the state read here
TransitionGet(i) ==
  /\ i \in Reqs
  /\ reqs[i].pcT = "get"
  /\ LET r    == reqs[i]
         site == sites[r.domain]
         cur  == normalizeApprovalState(site.approvalStatus)
     IN  IF ~canTransitionApproval(cur, TargetOf(r.type))
         THEN /\ reqs' = [reqs EXCEPT ![i] =
                              onRefused([r EXCEPT !.hadEntry = site.present], cur)]
              /\ now' = now
         ELSE \E t \in Stamps(now) :
                /\ now' = t
                /\ reqs' = [reqs EXCEPT ![i] =
                              [r EXCEPT !.pcT = "sget", !.cur = cur, !.tsT = t,
                                        !.hadEntry = site.present]]
  /\ UNCHANGED <<tabVars, pageVars, uiVars, sites, generatorLoaded, settings>>

\* the get callback of the setSite inside transitionApprovalState (lines
\* 158-161): merges the update into the object read now and hands the whole
\* object to chrome.storage.local.set
SetSiteGetT(i) ==
  /\ i \in Reqs
  /\ reqs[i].pcT = "sget"
  /\ LET r == reqs[i]
     IN  reqs' = [reqs EXCEPT ![i] =
                    [r EXCEPT !.pcT = "set",
                              !.bufT = setSiteMerge(sites, r.domain, TransitionUpdate(r))]]
  /\ UNCHANGED <<tabVars, pageVars, uiVars, sites, now, generatorLoaded, settings>>

\* chrome.storage.local.set completes (lines 161-164, 184-187), then the
\* handler's callback runs
SetSiteSetT(i) ==
  /\ i \in Reqs
  /\ reqs[i].pcT = "set"
  /\ sites' = reqs[i].bufT
  /\ IF reqs[i].type \in {"APPROVE_STYLE", "REJECT_STYLE"}
     THEN \E t \in Stamps(now) :
            /\ now' = t
            /\ reqs' = [reqs EXCEPT ![i] = onTransitioned(@, t)]
     ELSE /\ now' = now
          /\ reqs' = [reqs EXCEPT ![i] = onTransitioned(@, 0)]
  /\ UNCHANGED <<tabVars, pageVars, uiVars, generatorLoaded, settings>>


\* --------------------------------------------- the handler's own setSite
\* the get callback of setSite (lines 158-161)
SetSiteGetS(i) ==
  /\ i \in Reqs
  /\ reqs[i].pcS = "get"
  /\ LET r == reqs[i]
     IN  reqs' = [reqs EXCEPT ![i] =
                    [r EXCEPT !.pcS = "set",
                              !.bufS = setSiteMerge(sites, r.domain, SiteData(r))]]
  /\ UNCHANGED <<tabVars, pageVars, uiVars, sites, now, generatorLoaded, settings>>

\* the callback a handler hands to its setSite call: APPROVE_STYLE and
\* REJECT_STYLE answer success (lines 235-237, 249-251); REGENERATE_STYLE
\* calls generateStyle when it is loaded and answers at once (267-294);
\* GENERATE_STYLE calls generateStyle (328-354); APPLY_STYLE and
\* GET_SITE_STATUS pass () => {}
onSiteStored(r) ==
  LET s == [r EXCEPT !.pcS = "done", !.bufS = EmptySites, !.writes = @ + 1] IN
  CASE r.type \in {"APPROVE_STYLE", "REJECT_STYLE"} -> Respond(s, Success(""))
    [] r.type = "REGENERATE_STYLE" ->
         Respond([s EXCEPT !.gen = IF generatorLoaded THEN "inflight" ELSE "none"],
                 Success(""))
    [] r.type = "GENERATE_STYLE" -> [s EXCEPT !.gen = "inflight"]
    [] OTHER -> s

\* chrome.storage.local.set completes, then the handler's callback runs
SetSiteSetS(i) ==
  /\ i \in Reqs
  /\ reqs[i].pcS = "set"
  /\ sites' = reqs[i].bufS
  /\ reqs' = [reqs EXCEPT ![i] = onSiteStored(@)]
  /\ UNCHANGED <<tabVars, pageVars, uiVars, now, generatorLoaded, settings>>

\* ------------------------------------------------------- generateStyle
GenOutcomes == {"success", "failure", "throw"}

\* the .then / .catch of generateStyle(request): REGENERATE_STYLE sends the
\* css to the tab on success and only logs otherwise (lines 278-290);
\* GENERATE_STYLE answers with the response or with GENERATION_ERROR
\* (lines 337-353)
onGenerated(r, outcome) ==
  LET s == [r EXCEPT !.gen = outcome] IN
  IF r.type = "REGENERATE_STYLE"
  THEN IF outcome = "success"
       THEN [s EXCEPT !.pc = "send", !.tab = currentTabId]
       ELSE s
  ELSE CASE outcome = "success" -> Respond(s, Success(""))
         [] outcome = "failure" -> Respond(s, Failure("proxy error"))
         [] outcome = "throw"   -> Respond(s, Failure("GENERATION_ERROR"))

GenerateSettles(i, outcome) ==
  /\ i \in Reqs
  /\ reqs[i].gen = "inflight"
  /\ reqs' = [reqs EXCEPT ![i] = onGenerated(@, outcome)]
  /\ UNCHANGED <<tabVars, pageVars, uiVars, sites, now, generatorLoaded, settings>>

\* ----------------------------------------------------- sendMessageToTab
\* the promise of sendMessageToTab settles.  APPLY_STYLE (lines 371-384):
\* delivered -> with a domain, setSite({cacheStatus:'applied'}) and
\* transitionApprovalState(domain, pending) are both started, then success
\* is answered; not delivered -> the error is answered.  REGENERATE_STYLE
\* (lines 282-285) only logs a failure.
onTabAnswer(r, delivered) ==
  IF r.type = "APPLY_STYLE"
  THEN IF delivered
       THEN IF r.domain # NoDomain
            THEN Respond([r EXCEPT !.pc = "none", !.pcS = "get", !.pcT = "get"],
                         Success(""))
            ELSE Respond([r EXCEPT !.pc = "none"], Success(""))
       ELSE Respond([r EXCEPT !.pc = "none"], Failure("tab error"))
  ELSE [r EXCEPT !.pc = "none"]

TabAnswers(i, delivered) ==
  /\ i \in Reqs
  /\ reqs[i].pc = "send"
  /\ reqs' = [reqs EXCEPT ![i] = onTabAnswer(@, delivered)]
  /\ UNCHANGED <<tabVars, pageVars, uiVars, sites, now, generatorLoaded, settings>>

\* ------------------------------------------------------ GET_SITE_STATUS
\* the getSite callback of GET_SITE_STATUS (lines 397-406)
\* variant with the defaults of the earlier handler: the stored status is
\* reported as it is, 'unknown' when the record has none
onSiteStatus_RawStatus(r, site) ==
  LET status == [Success(IF site.approvalStatus = Absent THEN "unknown"
                         ELSE site.approvalStatus) EXCEPT
                   !.cache = IF site.cacheStatus = Absent THEN "unknown"
                             ELSE site.cacheStatus]
  IN  Respond([r EXCEPT !.pc = "none"], status)

onSiteStatus(r, site) ==
  LET normalizedState == normalizeApprovalState(site.approvalStatus)
      status == [Success(normalizedState) EXCEPT
                   !.cache = IF site.cacheStatus = Absent THEN "unknown"
                             ELSE site.cacheStatus]
      s == [r EXCEPT !.pc = "none", !.cur = normalizedState]
  IN  IF site.approvalStatus # normalizedState
      THEN Respond([s EXCEPT !.pcS = "get"], status)
      ELSE Respond(s, status)

StatusGet(i) ==
  /\ i \in Reqs
  /\ reqs[i].pc = "qget"
  /\ reqs' = [reqs EXCEPT ![i] = onSiteStatus(reqs[i], sites[reqs[i].domain])]
  /\ UNCHANGED <<tabVars, pageVars, uiVars, sites, now, generatorLoaded, settings>>

\* ------------------------------------------------ normalizeStoredStates
\* the get callback (lines 74-89): set is called only when some entry changed
NormalizeGet(i) ==
  /\ i \in Reqs
  /\ reqs[i].pc = "nget"
  /\ LET all == normalizeAll(sites)
     IN  reqs' = [reqs EXCEPT ![i] =
                    IF all # sites
                    THEN [@ EXCEPT !.pc = "nset", !.bufT = all]
                    ELSE [@ EXCEPT !.pc = "none"]]
  /\ UNCHANGED <<tabVars, pageVars, uiVars, sites, now, generatorLoaded, settings>>

NormalizeSet(i) ==
  /\ i \in Reqs
  /\ reqs[i].pc = "nset"
  /\ sites' = reqs[i].bufT
  /\ reqs' = [reqs EXCEPT ![i] =
                [@ EXCEPT !.pc = "none", !.bufT = EmptySites, !.writes = @ + 1]]
  /\ UNCHANGED <<tabVars, pageVars, uiVars, now, generatorLoaded, settings>>

\* ------------------------------------------------------------ the system
Next ==
  \/ \E type \in MessageTypes, d \in Domains, full \in BOOLEAN :
       Receive(type, d, full)
  \/ Receive("APPLY_STYLE", NoDomain, TRUE)
  \/ Startup
  \/ \E i \in 1..MaxReq : TransitionGet(i)
  \/ \E i \in 1..MaxReq : SetSiteGetT(i)
  \/ \E i \in 1..MaxReq : SetSiteSetT(i)
  \/ \E i \in 1..MaxReq : SetSiteGetS(i)
  \/ \E i \in 1..MaxReq : SetSiteSetS(i)
  \/ \E i \in 1..MaxReq, outcome \in GenOutcomes : GenerateSettles(i, outcome)
  \/ \E i \in 1..MaxReq, delivered \in BOOLEAN : TabAnswers(i, delivered)
  \/ \E i \in 1..MaxReq : StatusGet(i)
  \/ \E i \in 1..MaxReq : NormalizeGet(i)
  \/ \E i \in 1..MaxReq : NormalizeSet(i)

Spec == Init /\ [][Next]_vars


\* ================================================================ claims
\* the transition table as the specification states it
TableEdges ==
  {<<"pending", "approved">>, <<"pending", "rejected">>, <<"pending", "processing">>,
   <<"rejected", "processing">>, <<"rejected", "pending">>,
   <<"processing", "pending">>, <<"processing", "rejected">>}

\* the normalization as the specification states it
Canonical(v) == IF v \in APPROVAL_STATES THEN v ELSE "pending"

\* the getSite callback of request i's transitionApprovalState runs
ChecksEdge(i) == i \in Reqs /\ reqs[i].pcT = "get" /\ reqs'[i].pcT # "get"

\* request i completes the storage write of its transition
Transitions(i) == i \in Reqs /\ reqs[i].pcT = "set" /\ reqs'[i].pcT = "done"

\* C1: canTransitionApproval(from, to) holds exactly for the edges of the
\* table, every self-transition and every target outside the four states is
\* refused, and the write of a successful transitionApprovalState leaves the
\* target state and the update's timestamp in the stored record.
C1_TableAndUpdate ==
  [][ /\ \A from \in APPROVAL_STATES, to \in APPROVAL_STATES :
           canTransitionApproval(from, to) <=> (<<from, to>> \in TableEdges)
      /\ \A s \in StoredValues : ~canTransitionApproval(s, Canonical(s))
      /\ \A from \in StoredValues, to \in (StoredValues \cup {"none"}) \ APPROVAL_STATES :
           ~canTransitionApproval(from, to)
      /\ \A i \in 1..MaxReq :
           Transitions(i) =>
             /\ sites'[reqs[i].domain].approvalStatus = TargetOf(reqs[i].type)
             /\ sites'[reqs[i].domain].approvalUpdatedAt = reqs[i].tsT
             /\ reqs[i].tsT \in 1..now
             /\ <<reqs[i].cur, TargetOf(reqs[i].type)>> \in TableEdges ]_vars

C1_Witness ==
  \E i \in Reqs :
    /\ reqs[i].pcT = "done"
    /\ reqs[i].cur = "rejected"
    /\ sites[reqs[i].domain].approvalStatus = "processing"
    /\ sites[reqs[i].domain].approvalUpdatedAt = reqs[i].tsT
    /\ reqs[i].tsT = 2

\* C2: a transition asked along a non-edge reports success=false with an
\* error naming the normalized current state and the requested state, and
\* the request writes nothing: storage is the same before and after.
C2_RefusalLeavesEntry ==
  [][ \A i \in 1..MaxReq :
        ( /\ ChecksEdge(i)
          /\ <<Canonical(sites[reqs[i].domain].approvalStatus), TargetOf(reqs[i].type)>>
                \notin TableEdges )
        => /\ sites' = sites
           /\ reqs'[i].pcT = "refused"
           /\ reqs'[i].bufT = EmptySites
           /\ reqs[i].type \in TransitionTypes =>
                /\ reqs'[i].resp.success = "false"
                /\ reqs'[i].resp.from = Canonical(sites[reqs[i].domain].approvalStatus)
                /\ reqs'[i].resp.to = TargetOf(reqs[i].type)
                /\ reqs'[i].writes = 0
                /\ reqs'[i].pcS = "idle"
                /\ reqs'[i].gen = "none" ]_vars

C2_Witness ==
  \E i \in Reqs :
    /\ reqs[i].type = "REJECT_STYLE"
    /\ reqs[i].pcT = "refused"
    /\ reqs[i].resp.success = "false"
    /\ reqs[i].resp.from = "approved"
    /\ reqs[i].resp.to = "rejected"
    /\ reqs[i].writes = 0


\* C3: transition requests on one domain are serialized: whatever the
\* interleaving of the storage callbacks, every change of the stored
\* approvalStatus of a domain follows an edge of the table.
C3_Serialized ==
  [][ \A d \in Domains :
        Canonical(sites'[d].approvalStatus) # Canonical(sites[d].approvalStatus)
        => <<Canonical(sites[d].approvalStatus), Canonical(sites'[d].approvalStatus)>>
              \in TableEdges ]_vars

\* C4: once APPROVE_STYLE has answered success for a domain, the stored
\* approvalStatus of that domain is approved in every later state.
C4_ApprovalDurable ==
  \A i \in Reqs :
    (reqs[i].type = "APPROVE_STYLE" /\ reqs[i].resp.success = "true")
    => sites[reqs[i].domain].approvalStatus = "approved"

\* C5: APPROVE_STYLE for a domain whose stored approvalStatus is approved
\* when the handler reads it answers success=false with the invalid
\* transition approved -> approved, and the request changes nothing in
\* storage (approvalStatus, approvalUpdatedAt and approvedAt included).
C5_NoSecondApproval ==
  [][ \A i \in 1..MaxReq :
        ( /\ ChecksEdge(i)
          /\ reqs[i].type = "APPROVE_STYLE"
          /\ sites[reqs[i].domain].approvalStatus = "approved" )
        => /\ sites' = sites
           /\ reqs'[i].resp.success = "false"
           /\ reqs'[i].resp.error = "Invalid approval transition"
           /\ reqs'[i].resp.from = "approved"
           /\ reqs'[i].resp.to = "approved"
           /\ reqs'[i].nresp = 1
           /\ reqs'[i].writes = 0
           /\ reqs'[i].pcT = "refused"
           /\ reqs'[i].pcS = "idle" ]_vars

C5_Witness ==
  \E i \in Reqs, j \in Reqs :
    /\ i < j
    /\ reqs[i].type = "APPROVE_STYLE" /\ reqs[i].resp.success = "true"
    /\ reqs[j].type = "APPROVE_STYLE" /\ reqs[j].domain = reqs[i].domain
    /\ reqs[j].resp.success = "false" /\ reqs[j].resp.from = "approved"
    /\ sites[reqs[j].domain].approvalStatus = "approved"
    /\ sites[reqs[j].domain].approvedAt = reqs[i].tsS

\* C6: the stored approvalStatus of a domain becomes approved only by the
\* write of an APPROVE_STYLE request that found a record of that domain
\* with (normalized) status pending.
C6_OnlyExplicitApproval ==
  [][ \A d \in Domains :
        (sites'[d].approvalStatus = "approved" /\ sites[d].approvalStatus # "approved")
        => \E i \in Reqs :
             /\ Transitions(i)
             /\ reqs[i].type = "APPROVE_STYLE"
             /\ reqs[i].domain = d
             /\ reqs[i].hadEntry
             /\ reqs[i].cur = "pending" ]_vars

\* C7: normalizeApprovalState maps the four canonical states to themselves
\* and everything else to pending (so it is idempotent and yields approved
\* only for 'approved'), and transitionApprovalState, GET_SITE_STATUS and
\* the startup normalization use the stored status only through it.
C7_NormalizedAtReadBoundaries ==
  [][ /\ \A v \in StoredValues :
           /\ normalizeApprovalState(v) = Canonical(v)
           /\ normalizeApprovalState(normalizeApprovalState(v)) = normalizeApprovalState(v)
           /\ normalizeApprovalState(v) = "approved" => v = "approved"
      /\ \A i \in 1..MaxReq :
           /\ ChecksEdge(i) =>
                reqs'[i].cur = Canonical(sites[reqs[i].domain].approvalStatus)
           /\ (i \in Reqs /\ reqs[i].pc = "qget" /\ reqs'[i].pc # "qget") =>
                /\ reqs'[i].resp.status = Canonical(sites[reqs[i].domain].approvalStatus)
                /\ (reqs'[i].pcS = "get") <=>
                     (sites[reqs[i].domain].approvalStatus \notin APPROVAL_STATES)
           /\ (i \in Reqs /\ reqs[i].pc = "nget" /\ reqs'[i].pc = "nset") =>
                \A d \in Domains :
                  /\ reqs'[i].bufT[d].present = sites[d].present
                  /\ sites[d].present =>
                       reqs'[i].bufT[d].approvalStatus = Canonical(sites[d].approvalStatus) ]_vars

C7_Witness ==
  \E i \in Reqs, j \in Reqs :
    /\ reqs[i].type = "GET_SITE_STATUS"
    /\ reqs[i].resp.status = "pending"
    /\ sites[reqs[i].domain].approvalStatus = "unknown"
    /\ reqs[j].type = "STARTUP" /\ reqs[j].pc = "nset"
    /\ reqs[j].bufT[reqs[i].domain].approvalStatus = "pending"

\* C8: at most one generateStyle call is outstanding per domain.
C8_OneGenerationInFlight ==
  \A d \in Domains :
    Cardinality({i \in Reqs : reqs[i].domain = d /\ reqs[i].gen = "inflight"}) <= 1

\* C9: a REGENERATE_STYLE or GENERATE_STYLE request that finds the entry of
\* its domain processing is not answered with an error.
C9_CoalescedNotRefused ==
  \A i \in Reqs :
    ( /\ reqs[i].type \in GenerationTypes
      /\ reqs[i].cur = "processing"
      /\ reqs[i].pcT = "refused" )
    => reqs[i].resp.success # "false"

\* C10: a request calls generateStyle only after its own write of
\* approvalStatus = processing has completed, and a request whose
\* transition to processing was refused never calls it.
C10_ProcessingBeforeGenerate ==
  [][ \A i \in 1..MaxReq :
        (i \in Reqs /\ reqs[i].type \in GenerationTypes) =>
          /\ Transitions(i) =>
               /\ sites'[reqs[i].domain].approvalStatus = "processing"
               /\ reqs[i].gen = "none" /\ reqs'[i].gen = "none"
          /\ reqs'[i].gen # "none" => reqs'[i].pcT = "done"
          /\ reqs'[i].pcT = "refused" =>
               /\ reqs'[i].gen = "none"
               /\ reqs'[i].pcS = "idle" ]_vars

C10_Witness ==
  \E i \in Reqs, j \in Reqs :
    /\ reqs[i].type = "REGENERATE_STYLE" /\ reqs[i].gen = "inflight"
    /\ reqs[i].pcT = "done"
    /\ reqs[j].type = "GENERATE_STYLE" /\ reqs[j].pcT = "refused"
    /\ reqs[j].gen = "none"


\* request r has no callback left to run
Idle(r) ==
  /\ r.pc \in {"none", "crashed"}
  /\ r.pcT \in {"idle", "done", "refused"}
  /\ r.pcS \in {"idle", "done"}
  /\ r.gen # "inflight"

\* no handler has a callback left: only a new message or event changes the state
Quiescent == \A i \in Reqs : Idle(reqs[i])

\* C11: an entry does not stay in processing: once the generation of a
\* request has failed, thrown, or could not be started because no generator
\* is loaded, and every handler has run to its end, the stored
\* approvalStatus of the domain is rejected.
C11_NotStuckInProcessing ==
  \A i \in Reqs :
    ( /\ Quiescent
      /\ reqs[i].type \in GenerationTypes
      /\ reqs[i].pcT = "done"
      /\ reqs[i].gen \in {"failure", "throw", "none"} )
    => sites[reqs[i].domain].approvalStatus = "rejected"

\* C12: once generateStyle has resolved with success for a request and
\* every handler has run to its end, the stored approvalStatus of the domain
\* is pending.
C12_SuccessLeavesPending ==
  \A i \in Reqs :
    ( /\ Quiescent
      /\ reqs[i].type \in GenerationTypes
      /\ reqs[i].gen = "success" )
    => sites[reqs[i].domain].approvalStatus = "pending"


\* ------------------------------------------- requests with era and feedback
\* the messages the popup and the banner send carry payload.era
\* (approveStyle) and payload.feedback (regenerateStyle); the handlers read
\* payload.domain only, so both are carried along untouched
ReceivePayload(type, domain, era, feedback) ==
  /\ Len(reqs) < MaxReq
  /\ reqs' = Append(reqs, [onMessage(type, domain, TRUE) EXCEPT
                             !.era = era, !.feedback = feedback])
  /\ UNCHANGED <<tabVars, pageVars, uiVars, sites, now, generatorLoaded, settings>>

NextPayload ==
  \/ \E type \in {"APPROVE_STYLE", "REJECT_STYLE", "GET_SITE_STATUS"},
        d \in Domains, era \in Eras :
       ReceivePayload(type, d, era, "none")
  \/ \E d \in Domains, era \in Eras, feedback \in {"empty", "given"} :
       ReceivePayload("REGENERATE_STYLE", d, era, feedback)
  \/ \E i \in 1..MaxReq : TransitionGet(i)
  \/ \E i \in 1..MaxReq : SetSiteGetT(i)
  \/ \E i \in 1..MaxReq : SetSiteSetT(i)
  \/ \E i \in 1..MaxReq : SetSiteGetS(i)
  \/ \E i \in 1..MaxReq : SetSiteSetS(i)
  \/ \E i \in 1..MaxReq, outcome \in GenOutcomes : GenerateSettles(i, outcome)
  \/ \E i \in 1..MaxReq, delivered \in BOOLEAN : TabAnswers(i, delivered)
  \/ \E i \in 1..MaxReq : StatusGet(i)

SpecPayload == Init /\ [][NextPayload]_vars

\* C13: the feedback of a REGENERATE_STYLE request is in the stored
\* feedback history of the entry by the time generateStyle has been called
\* for that request (and so still is after a failed generation).
C13_FeedbackRecordedFirst ==
  \A i \in Reqs :
    ( /\ reqs[i].type = "REGENERATE_STYLE"
      /\ reqs[i].feedback = "given"
      /\ reqs[i].gen # "none" )
    => \E k \in 1..Len(sites[reqs[i].domain].feedbackHistory) :
         sites[reqs[i].domain].feedbackHistory[k] = reqs[i].feedback

\* C14: a REGENERATE_STYLE request whose feedback has neither a preset nor
\* free text is refused by the background handler: it is not answered
\* success, it writes nothing and it starts no generation.
C14_EmptyFeedbackRefused ==
  \A i \in Reqs :
    (reqs[i].type = "REGENERATE_STYLE" /\ reqs[i].feedback = "empty")
    => /\ reqs[i].resp.success # "true"
       /\ reqs[i].pcT \notin {"sget", "set", "done"}
       /\ reqs[i].writes = 0
       /\ reqs[i].gen = "none"

\* a transition request for (domain, era) whose edge was accepted
Accepted(i, d, era) ==
  /\ reqs[i].type \in TransitionTypes
  /\ reqs[i].domain = d
  /\ reqs[i].era = era
  /\ reqs[i].pcT \in {"sget", "set", "done"}

\* C19: entries are distinct per (domain, era): the approval status that
\* GET_SITE_STATUS reports for a domain under one era differs from the
\* initial pending only if a transition was asked for that domain under the
\* same era.
C19_DistinctPerEra ==
  \A j \in Reqs :
    ( /\ reqs[j].type = "GET_SITE_STATUS"
      /\ reqs[j].resp.success = "true"
      /\ reqs[j].resp.status # "pending" )
    => \E i \in Reqs : Accepted(i, reqs[j].domain, reqs[j].era)


\* C15: every stored entry whose approvalStatus is pending, approved or
\* rejected holds a css value.
C15_EntryHoldsCss ==
  \A d \in Domains :
    (sites[d].present /\ sites[d].approvalStatus \in {"pending", "approved", "rejected"})
    => sites[d].css # Absent


\* the getSite callback of request i's GET_SITE_STATUS runs
LooksUp(i) == i \in Reqs /\ reqs[i].pc = "qget" /\ reqs'[i].pc # "qget"

\* C17: GET_SITE_STATUS for a domain without a stored entry answers
\* success=true with cacheStatus 'unknown' and approvalStatus pending, and a
\* GET_SITE_STATUS request is answered with an error exactly when its
\* payload has no domain.
C17_LookupNeverFailsOnMiss ==
  [][ \A i \in 1..MaxReq :
        /\ (LooksUp(i) /\ ~sites[reqs[i].domain].present) =>
             /\ reqs'[i].resp.success = "true"
             /\ reqs'[i].resp.status = "pending"
             /\ reqs'[i].resp.cache = "unknown"
             /\ reqs'[i].nresp = 1
        /\ LooksUp(i) => reqs'[i].resp.success = "true"
        /\ (i \in 1..Len(reqs') /\ reqs'[i].type = "GET_SITE_STATUS") =>
             /\ reqs'[i].resp.success = "false" <=>
                  (reqs'[i].domain = NoDomain /\ reqs'[i].resp.error = "Missing domain")
             /\ reqs'[i].domain = NoDomain => reqs'[i].resp.success = "false" ]_vars

C17_Witness ==
  \E i \in Reqs :
    /\ reqs[i].type = "GET_SITE_STATUS"
    /\ reqs[i].domain \in Domains
    /\ ~sites[reqs[i].domain].present
    /\ reqs[i].resp.success = "true"
    /\ reqs[i].resp.status = "pending"
    /\ reqs[i].resp.cache = "unknown"


\* the fields of a stored record
SiteFields == DOMAIN NoSite \ {"present"}

\* the get callback of the handler's own setSite of request i runs
ReadsForSet(i) == i \in Reqs /\ reqs[i].pcS = "get" /\ reqs'[i].pcS = "set"

\* the set of the handler's own setSite of request i completes
Stores(i) == i \in Reqs /\ reqs[i].pcS = "set" /\ reqs'[i].pcS = "done"

\* C18 as stated: once setSite(domain, data) has completed, getSite(domain)
\* yields an entry equal to data; no other field of the previous entry
\* survives.
C18_PutReplaces ==
  [][ \A i \in 1..MaxReq :
        Stores(i) =>
          /\ \A f \in DOMAIN SiteData(reqs[i]) :
               sites'[reqs[i].domain][f] = SiteData(reqs[i])[f]
          /\ \A f \in SiteFields \ DOMAIN SiteData(reqs[i]) :
               sites'[reqs[i].domain][f] = NoSite[f] ]_vars

\* C18 as amended: once setSite(domain, data) has completed, getSite(domain)
\* yields the entry setSite read for the domain overlaid with data: the
\* fields of data have data's values, every other field keeps the value
\* that was read, and the records of the other domains are written back as
\* they were read.
C18_PutMerges ==
  [][ \A i \in 1..MaxReq :
        /\ ReadsForSet(i) =>
             /\ reqs'[i].bufS[reqs[i].domain].present
             /\ \A f \in DOMAIN SiteData(reqs[i]) :
                  reqs'[i].bufS[reqs[i].domain][f] = SiteData(reqs[i])[f]
             /\ \A f \in SiteFields \ DOMAIN SiteData(reqs[i]) :
                  reqs'[i].bufS[reqs[i].domain][f] = sites[reqs[i].domain][f]
             /\ \A e \in Domains \ {reqs[i].domain} : reqs'[i].bufS[e] = sites[e]
        /\ Stores(i) => sites' = reqs[i].bufS
        /\ (i \in Reqs /\ reqs[i].pcT = "sget" /\ reqs'[i].pcT = "set") =>
             /\ reqs'[i].bufT[reqs[i].domain].present
             /\ \A f \in DOMAIN TransitionUpdate(reqs[i]) :
                  reqs'[i].bufT[reqs[i].domain][f] = TransitionUpdate(reqs[i])[f]
             /\ \A f \in SiteFields \ DOMAIN TransitionUpdate(reqs[i]) :
                  reqs'[i].bufT[reqs[i].domain][f] = sites[reqs[i].domain][f]
             /\ \A e \in Domains \ {reqs[i].domain} : reqs'[i].bufT[e] = sites[e]
        /\ (i \in Reqs /\ reqs[i].pcT = "set" /\ reqs'[i].pcT # "set") =>
             sites' = reqs[i].bufT ]_vars

C18_Witness ==
  \E i \in Reqs :
    /\ reqs[i].type = "APPROVE_STYLE"
    /\ reqs[i].pcS = "done"
    /\ reqs[i].tsS = 2
    /\ sites[reqs[i].domain].approvedAt = reqs[i].tsS
    /\ sites[reqs[i].domain].approvalStatus = "approved"
    /\ sites[reqs[i].domain].approvalUpdatedAt = 1


\* C20: once a record exists for a domain it still exists after every step
\* of the handling of APPROVE_STYLE, REJECT_STYLE, REGENERATE_STYLE,
\* GENERATE_STYLE, APPLY_STYLE and GET_SITE_STATUS requests, whatever their
\* domains and their interleaving.
C20_EntryNeverDestroyed ==
  [][ (\A i \in Reqs : reqs[i].type \in MessageTypes) =>
        \A d \in Domains : sites[d].present => sites'[d].present ]_vars


\* ------------------------------------------------- storage that can fail
\* SET_SETTING (lines 221-226): setSetting issues its get of 'settings'
ReceiveSetting(value) ==
  /\ Len(reqs) < MaxReq
  /\ reqs' = Append(reqs, [NewReq("SET_SETTING", NoDomain) EXCEPT
                             !.pc = "kget", !.value = value])
  /\ UNCHANGED <<tabVars, pageVars, uiVars, sites, now, generatorLoaded, settings>>

\* the get callback of setSetting (lines 140-142): settings[key] = value on
\* the object read, which chrome.storage.local.set is then handed
SettingGet(i) ==
  /\ i \in Reqs
  /\ reqs[i].pc = "kget"
  /\ reqs' = [reqs EXCEPT ![i] = [@ EXCEPT !.pc = "kset"]]
  /\ UNCHANGED <<tabVars, pageVars, uiVars, sites, now, generatorLoaded, settings>>

\* the callback the SET_SETTING handler hands to setSetting (lines 222-224)
onSettingStored(r) == Respond([r EXCEPT !.pc = "none"], Success(""))

\* chrome.storage.local.set({ settings }) completes (lines 143-146)
SettingSet(i) ==
  /\ i \in Reqs
  /\ reqs[i].pc = "kset"
  /\ settings' = [settings EXCEPT !.selectedEra = reqs[i].value]
  /\ reqs' = [reqs EXCEPT ![i] = onSettingStored([@ EXCEPT !.writes = @ + 1])]
  /\ UNCHANGED <<tabVars, pageVars, uiVars, sites, now, generatorLoaded>>

\* chrome.storage.local.get fails: chrome sets runtime.lastError and calls
\* the callback without a result, so result.sites / result.settings (lines
\* 140, 151, 158) throws and the chain of callbacks stops there
StorageGetFails(i) ==
  /\ i \in Reqs
  /\ \/ reqs[i].pcT \in {"get", "sget"}
     \/ reqs[i].pcS = "get"
     \/ reqs[i].pc = "kget"
  /\ LET r == reqs[i]
     IN  reqs' = [reqs EXCEPT ![i] =
                    IF r.pcT \in {"get", "sget"} THEN [r EXCEPT !.pcT = "crashed"]
                    ELSE IF r.pcS = "get" THEN [r EXCEPT !.pcS = "crashed"]
                    ELSE [r EXCEPT !.pc = "crashed"]]
  /\ UNCHANGED <<tabVars, pageVars, uiVars, sites, now, generatorLoaded, settings>>

\* chrome.storage.local.set fails: nothing is stored, chrome sets
\* runtime.lastError and calls the callback, which never looks at it (lines
\* 143-146, 162-165) and goes on as after a write
StorageSetFails(i) ==
  /\ i \in Reqs
  /\ \/ reqs[i].pcT = "set"
     \/ reqs[i].pcS = "set"
     \/ reqs[i].pc = "kset"
  /\ LET r == [reqs[i] EXCEPT !.lost = @ + 1]
     IN  IF r.pcT = "set"
         THEN IF r.type \in {"APPROVE_STYLE", "REJECT_STYLE"}
              THEN \E t \in Stamps(now) :
                     /\ now' = t
                     /\ reqs' = [reqs EXCEPT ![i] =
                                   [onTransitioned(r, t) EXCEPT !.writes = r.writes]]
              ELSE /\ now' = now
                   /\ reqs' = [reqs EXCEPT ![i] =
                                 [onTransitioned(r, 0) EXCEPT !.writes = r.writes]]
         ELSE /\ now' = now
              /\ reqs' = [reqs EXCEPT ![i] =
                            IF r.pcS = "set"
                            THEN [onSiteStored(r) EXCEPT !.writes = r.writes]
                            ELSE onSettingStored(r)]
  /\ UNCHANGED <<tabVars, pageVars, uiVars, sites, generatorLoaded, settings>>

NextStorage ==
  \/ \E type \in {"APPROVE_STYLE", "REJECT_STYLE", "REGENERATE_STYLE"},
        d \in Domains : Receive(type, d, TRUE)
  \/ \E value \in Eras : ReceiveSetting(value)
  \/ \E i \in 1..MaxReq : TransitionGet(i)
  \/ \E i \in 1..MaxReq : SetSiteGetT(i)
  \/ \E i \in 1..MaxReq : SetSiteSetT(i)
  \/ \E i \in 1..MaxReq : SetSiteGetS(i)
  \/ \E i \in 1..MaxReq : SetSiteSetS(i)
  \/ \E i \in 1..MaxReq : SettingGet(i)
  \/ \E i \in 1..MaxReq : SettingSet(i)
  \/ \E i \in 1..MaxReq : StorageGetFails(i)
  \/ \E i \in 1..MaxReq : StorageSetFails(i)
  \/ \E i \in 1..MaxReq, outcome \in GenOutcomes : GenerateSettles(i, outcome)
  \/ \E i \in 1..MaxReq, delivered \in BOOLEAN : TabAnswers(i, delivered)

SpecStorage == Init /\ [][NextStorage]_vars

\* C16: a handler of APPROVE_STYLE, REJECT_STYLE, REGENERATE_STYLE or
\* SET_SETTING that has answered success = true has lost none of its
\* storage writes: success is answered only when the write was stored.
C16_SuccessMeansStored ==
  \A i \in Reqs :
    ( /\ reqs[i].type \in {"APPROVE_STYLE", "REJECT_STYLE", "REGENERATE_STYLE",
                           "SET_SETTING"}
      /\ reqs[i].resp.success = "true" )
    => reqs[i].lost = 0


\* request i calls generateStyle in this step
InvokesGenerate(i) ==
  i \in Reqs /\ reqs[i].gen = "none" /\ reqs'[i].gen = "inflight"

\* C21: whenever generateStyle is invoked for a domain, the stored
\* approvalStatus of that domain is not approved at that moment.
C21_ApprovedNotRegenerated ==
  [][ \A i \in 1..MaxReq :
        InvokesGenerate(i) =>
          sites'[reqs[i].domain].approvalStatus # "approved" ]_vars


\* C23: the handling of an APPLY_STYLE request leaves the stored
\* approvalStatus, approvalUpdatedAt and cacheStatus of every domain as they
\* were, whatever the payload and whether or not the tab was reached.
C23_ApplyStyleWritesNothing ==
  [][ \A i \in 1..MaxReq :
        ( /\ i \in Reqs
          /\ reqs[i].type = "APPLY_STYLE"
          /\ reqs'[i] # reqs[i] )
        => \A d \in Domains :
             /\ sites'[d].approvalStatus = sites[d].approvalStatus
             /\ sites'[d].approvalUpdatedAt = sites[d].approvalUpdatedAt
             /\ sites'[d].cacheStatus = sites[d].cacheStatus ]_vars


\* request i failed the validation of its handler: the payload lacks what
\* the handler checks, or GENERATE_STYLE found no generateStyle function
FailedValidation(i) ==
  \/ reqs[i].type \in {"APPLY_STYLE", "GENERATE_STYLE", "GET_SITE_STATUS"}
       /\ ~reqs[i].valid
  \/ reqs[i].type = "GENERATE_STYLE" /\ ~generatorLoaded

\* C26: a request that fails validation answers success = false exactly
\* once, never issues a storage read or write, never sends to a tab and
\* never calls generateStyle.
C26_InvalidChangesNothing ==
  \A i \in Reqs :
    FailedValidation(i) =>
      /\ reqs[i].nresp = 1
      /\ reqs[i].resp.success = "false"
      /\ reqs[i].writes = 0
      /\ reqs[i].pc = "none"
      /\ reqs[i].pcT = "idle"
      /\ reqs[i].pcS = "idle"
      /\ reqs[i].gen = "none"

C26_Witness ==
  \E i, j \in Reqs :
    /\ reqs[i].type = "APPLY_STYLE" /\ ~reqs[i].valid
    /\ reqs[j].type = "GENERATE_STYLE" /\ reqs[j].valid /\ ~generatorLoaded
    /\ reqs[i].nresp = 1 /\ reqs[j].nresp = 1


\* C27: a GET_SITE_STATUS request whose domain holds a canonical
\* approvalStatus issues no write; otherwise the only effect of its write on
\* the store is that the approvalStatus of its domain becomes pending; the
\* status it reports is canonical, and approved only when approved is stored.
C27_StatusReadOnlyIfCanonical ==
  [][ \A i \in 1..MaxReq :
        /\ (LooksUp(i) /\ reqs[i].domain \in Domains) =>
             /\ (sites[reqs[i].domain].approvalStatus \in APPROVAL_STATES
                   => reqs'[i].pcS = "idle")
             /\ reqs'[i].resp.status \in APPROVAL_STATES
             /\ (reqs'[i].resp.status = "approved"
                   => sites[reqs[i].domain].approvalStatus = "approved")
        /\ (Stores(i) /\ reqs[i].type = "GET_SITE_STATUS") =>
             sites' = [sites EXCEPT ![reqs[i].domain] =
                         [@ EXCEPT !.present = TRUE,
                                   !.approvalStatus = "pending"]] ]_vars


\* ------------------------------------------ startup on an arbitrary store
\* the records an earlier run of the worker, or an earlier version, may
\* have left in chrome.storage.local
StoredSites ==
  {NoSite} \cup
  { [NoSite EXCEPT !.present = TRUE, !.approvalStatus = st,
                   !.approvedAt = at, !.cacheStatus = cs] :
      st \in StoredValues, at \in {0, 1}, cs \in {Absent, "applied"} }

InitStartup ==
  /\ sites \in [Domains -> StoredSites]
  /\ reqs = <<>>
  /\ now = 1
  /\ generatorLoaded = TRUE
  /\ settings = [selectedEra |-> NoEra]
  /\ InitTabs
  /\ InitPage
  /\ InitUI

\* onStartup and onInstalled are the only events: no message is handled
NextStartup ==
  \/ Startup
  \/ \E i \in 1..MaxReq : NormalizeGet(i)
  \/ \E i \in 1..MaxReq : NormalizeSet(i)

SpecStartup == InitStartup /\ [][NextStartup]_vars

\* normalizeStoredStates runs alone: no message is being handled
StartupAlone == \A j \in Reqs : reqs[j].type = "STARTUP"

\* C28: normalizeStoredStates, run with no concurrent request, sets to
\* pending exactly the approvalStatus values that are not canonical, leaves
\* every canonical approvalStatus and every other field of every record as
\* it was, and issues no write when every record is canonical.
C28_StartupNormalizesOnly ==
  [][ \A i \in 1..MaxReq :
        ( /\ i \in Reqs
          /\ StartupAlone
          /\ reqs[i].pc \in {"nget", "nset"}
          /\ reqs'[i].pc # reqs[i].pc )
        => /\ \A d \in Domains :
                /\ sites'[d].present = sites[d].present
                /\ \A f \in SiteFields \ {"approvalStatus"} :
                     sites'[d][f] = sites[d][f]
                /\ sites[d].approvalStatus \in APPROVAL_STATES
                     => sites'[d].approvalStatus = sites[d].approvalStatus
                /\ (reqs[i].pc = "nset" /\ sites[d].present
                      /\ sites[d].approvalStatus \notin APPROVAL_STATES)
                     => sites'[d].approvalStatus = "pending"
           /\ reqs[i].pc = "nget" =>
                (reqs'[i].pc = "none" <=>
                   \A d \in Domains :
                     sites[d].present => sites[d].approvalStatus \in APPROVAL_STATES) ]_vars

C28_Witness ==
  \E i \in Reqs :
    /\ StartupAlone
    /\ reqs[i].type = "STARTUP"
    /\ reqs[i].pc = "none"
    /\ reqs[i].writes = 1
    /\ \E d, e \in Domains :
         /\ sites[d].approvalStatus = "pending" /\ sites[d].approvedAt = 1
         /\ sites[e].approvalStatus = "processing"


\* ------------------------------------------------ feedback with free text
\* the length the character counter of the popup treats as full
FeedbackTextCap == 200

\* lengths of payload.feedback.text, around the cap
TextLengths == {0, 1, FeedbackTextCap, FeedbackTextCap + 1}

\* a REGENERATE_STYLE message with payload.feedback = { preset, text }: the
\* handler logs the feedback (line 258) and hands it to generateStyle (line
\* 274) as it came
ReceiveFeedback(domain, preset, len) ==
  /\ Len(reqs) < MaxReq
  /\ reqs' = Append(reqs, [onMessage("REGENERATE_STYLE", domain, TRUE) EXCEPT
                             !.feedback = IF ~preset /\ len = 0 THEN "empty"
                                          ELSE "given",
                             !.textLen = len])
  /\ UNCHANGED <<tabVars, pageVars, uiVars, sites, now, generatorLoaded, settings>>

NextFeedback ==
  \/ \E d \in Domains, preset \in BOOLEAN, len \in TextLengths :
       ReceiveFeedback(d, preset, len)
  \/ \E i \in 1..MaxReq : TransitionGet(i)
  \/ \E i \in 1..MaxReq : SetSiteGetT(i)
  \/ \E i \in 1..MaxReq : SetSiteSetT(i)
  \/ \E i \in 1..MaxReq : SetSiteGetS(i)
  \/ \E i \in 1..MaxReq : SetSiteSetS(i)
  \/ \E i \in 1..MaxReq, outcome \in GenOutcomes : GenerateSettles(i, outcome)
  \/ \E i \in 1..MaxReq, delivered \in BOOLEAN : TabAnswers(i, delivered)

SpecFeedback == Init /\ [][NextFeedback]_vars

\* C24: the text of every feedback the REGENERATE_STYLE handler has
\* accepted (its transition went through) is at most 200 characters long.
C24_FeedbackTextCapped ==
  \A i \in Reqs :
    ( /\ reqs[i].type = "REGENERATE_STYLE"
      /\ reqs[i].pcT \in {"sget", "set", "done"} )
    => reqs[i].textLen <= FeedbackTextCap


\* ------------------------------------------------------------ tab tracking
\* the domain of the page a tab displays (url.hostname, lines 195-201)
TabDomain(t) == ((t - 1) % NumDomains) + 1

\* chrome.tabs.onActivated (lines 58-61); activating a tab that was not
\* opened yet opens it
TabActivated(t) ==
  /\ tabs[t] \in {"new", "open"}
  /\ tabs' = [tabs EXCEPT ![t] = "open"]
  /\ currentTabId' = t
  /\ activated' = t
  /\ UNCHANGED <<pageVars, uiVars, sites, reqs, now, generatorLoaded, settings>>

\* variant that forgets the current tab whichever tab is removed
onRemoved_AlwaysClears(tabId) == NoTab

\* the listener of chrome.tabs.onRemoved (lines 66-71): the new currentTabId
onRemoved(tabId) ==
  IF currentTabId = tabId THEN NoTab ELSE currentTabId

\* a tab is closed, whether or not it was ever activated
TabRemoved(t) ==
  /\ tabs[t] \in {"new", "open"}
  /\ tabs' = [tabs EXCEPT ![t] = "closed"]
  /\ currentTabId' = onRemoved(t)
  /\ UNCHANGED <<activated, pageVars, uiVars, sites, reqs, now, generatorLoaded, settings>>

\* the popup asks to regenerate the style of the page of the active tab
\* (popup.js 364-389: payload.domain is the domain GET_CURRENT_TAB gave)
ReceiveFromPopup ==
  /\ activated # NoTab
  /\ tabs[activated] = "open"
  /\ Receive("REGENERATE_STYLE", TabDomain(activated), TRUE)
  /\ UNCHANGED <<tabVars, uiVars>>

\* the tabs sendMessageToTab(tabId, ...) may send to (lines 104-123): the
\* given tab, or without one the active tab of the current window, which is
\* the last activated tab while it is open and otherwise a tab the browser
\* has picked
SendTargets(tabId) ==
  IF tabId # NoTab THEN {tabId}
  ELSE IF activated # NoTab /\ tabs[activated] = "open" THEN {activated}
  ELSE {t \in Tabs : tabs[t] = "open"}

\* chrome.tabs.sendMessage settles: no active tab, a closed tab or a page
\* without content script rejects; otherwise the content script of tab t
\* gets the css
TabReceives(i, t, delivered) ==
  /\ i \in Reqs
  /\ reqs[i].pc = "send"
  /\ IF SendTargets(reqs[i].tab) = {}
     THEN /\ ~delivered
          /\ t = NoTab
     ELSE /\ t \in SendTargets(reqs[i].tab)
          /\ delivered => tabs[t] = "open"
  /\ reqs' = [reqs EXCEPT ![i] =
                [onTabAnswer(@, delivered) EXCEPT
                   !.sentTo = IF delivered THEN t ELSE NoTab]]
  /\ UNCHANGED <<tabVars, pageVars, uiVars, sites, now, generatorLoaded, settings>>

NextTabs ==
  \/ \E t \in Tabs : TabActivated(t)
  \/ \E t \in Tabs : TabRemoved(t)
  \/ ReceiveFromPopup
  \/ \E i \in 1..MaxReq : TransitionGet(i)
  \/ \E i \in 1..MaxReq : SetSiteGetT(i)
  \/ \E i \in 1..MaxReq : SetSiteSetT(i)
  \/ \E i \in 1..MaxReq : SetSiteGetS(i)
  \/ \E i \in 1..MaxReq : SetSiteSetS(i)
  \/ \E i \in 1..MaxReq, outcome \in GenOutcomes : GenerateSettles(i, outcome)
  \/ \E i \in 1..MaxReq, t \in Tabs \cup {NoTab}, delivered \in BOOLEAN :
       TabReceives(i, t, delivered)

SpecTabs == Init /\ [][NextTabs]_vars

\* C29: after any sequence of tab-activated and tab-removed events,
\* currentTabId is the most recently activated tab if that tab has not been
\* removed since, and null otherwise (so that removing another tab leaves
\* it as it was).
C29_TracksActiveTab ==
  currentTabId = IF activated # NoTab /\ tabs[activated] = "open"
                 THEN activated ELSE NoTab

C29_Witness ==
  /\ activated # NoTab
  /\ tabs[activated] = "open"
  /\ currentTabId = activated
  /\ \E t \in Tabs : tabs[t] = "closed"

\* C30: the css generated by a REGENERATE_STYLE request for a domain is
\* only ever delivered to a tab that displays that domain.
C30_CssReachesItsDomain ==
  \A i \in Reqs :
    (reqs[i].type = "REGENERATE_STYLE" /\ reqs[i].sentTo # NoTab)
      => TabDomain(reqs[i].sentTo) = reqs[i].domain


\* ---------------------------------------------------------- content script
\* css texts the messages carry
CssTexts == {"css1", "css2"}

\* the position of the first element with the given id (getElementById
\* returns the first in document order), 0 when there is none
RECURSIVE FirstWithId(_, _, _)
FirstWithId(styles, id, k) ==
  IF k > Len(styles) THEN 0
  ELSE IF styles[k].id = id THEN k
  ELSE FirstWithId(styles, id, k + 1)

Without(styles, k) ==
  [j \in 1..(Len(styles) - 1) |-> IF j < k THEN styles[j] ELSE styles[j + 1]]

\* removeCSS(id) (popup.js 622-638): the document's style elements and
\* injectedStyleElement afterwards
removeCSS(doc, held, id) ==
  LET k == FirstWithId(doc.styles, id, 1) IN
  IF k = 0 THEN [doc |-> doc, held |-> held]
  ELSE [doc |-> [doc EXCEPT !.styles = Without(doc.styles, k)],
        held |-> IF held = doc.styles[k].n THEN 0 ELSE held]

\* injectCSS(css, id) (popup.js 580-615): removes the element with the id,
\* creates a new one and appends it to head, documentElement or body; when
\* the document has none of them the append waits for DOMContentLoaded
injectCSS(doc, held, css, id, n) ==
  LET r     == removeCSS(doc, held, id)
      style == [id |-> id, css |-> css, n |-> n]
  IN  IF r.doc.ready = "none"
      THEN [doc |-> [r.doc EXCEPT !.listeners = Append(@, style)], held |-> r.held]
      ELSE [doc |-> [r.doc EXCEPT !.styles = Append(@, style)], held |-> n]

\* INJECT_CSS and APPLY_STYLE (popup.js 646-663) both call injectCSS
InjectMessage(css, id) ==
  /\ injectCount < MaxInject
  /\ LET r == injectCSS(document, injectedStyleElement, css, id, injectCount + 1)
     IN  /\ document' = r.doc
         /\ injectedStyleElement' = r.held
  /\ lastInjected' = [lastInjected EXCEPT ![id] = css]
  /\ injectCount' = injectCount + 1
  /\ UNCHANGED <<tabVars, uiVars, sites, reqs, now, generatorLoaded, settings>>

\* REMOVE_CSS (popup.js 665-672)
RemoveMessage(id) ==
  /\ LET r == removeCSS(document, injectedStyleElement, id)
     IN  /\ document' = r.doc
         /\ injectedStyleElement' = r.held
  /\ UNCHANGED <<lastInjected, injectCount>>
  /\ UNCHANGED <<tabVars, uiVars, sites, reqs, now, generatorLoaded, settings>>

\* the parser creates the root element
RootCreated ==
  /\ document.ready = "none"
  /\ document' = [document EXCEPT !.ready = "loading"]
  /\ UNCHANGED <<injectedStyleElement, lastInjected, injectCount>>
  /\ UNCHANGED <<tabVars, uiVars, sites, reqs, now, generatorLoaded, settings>>

\* DOMContentLoaded: every queued listener (popup.js 595-603) appends its
\* element to document.head and stores it in injectedStyleElement
DOMContentLoaded ==
  /\ document.ready = "loading"
  /\ document' = [ready |-> "loaded",
                  styles |-> document.styles \o document.listeners,
                  listeners |-> <<>>]
  /\ injectedStyleElement' =
       IF document.listeners = <<>> THEN injectedStyleElement
       ELSE document.listeners[Len(document.listeners)].n
  /\ UNCHANGED <<lastInjected, injectCount>>
  /\ UNCHANGED <<tabVars, uiVars, sites, reqs, now, generatorLoaded, settings>>

\* the content script is loaded at document_start, at the latest when the
\* page has been parsed
InitContent ==
  /\ sites = EmptySites
  /\ reqs = <<>>
  /\ now = 1
  /\ generatorLoaded = TRUE
  /\ settings = [selectedEra |-> NoEra]
  /\ InitTabs
  /\ document \in {[ready |-> rd, styles |-> <<>>, listeners |-> <<>>] :
                     rd \in {"none", "loading", "loaded"}}
  /\ injectedStyleElement = 0
  /\ lastInjected = [id \in StyleIds |-> Absent]
  /\ injectCount = 0
  /\ InitUI

NextContent ==
  \/ \E css \in CssTexts, id \in StyleIds : InjectMessage(css, id)
  \/ \E id \in StyleIds : RemoveMessage(id)
  \/ RootCreated
  \/ DOMContentLoaded

SpecContent == InitContent /\ [][NextContent]_vars

\* the style elements of the document with the given id
WithId(id) == {k \in 1..Len(document.styles) : document.styles[k].id = id}

\* C22: after any sequence of INJECT_CSS, APPLY_STYLE and REMOVE_CSS
\* messages the page holds at most one style element for each id, and that
\* element holds the css of the most recent injection for the id.
C22_OneStylePerId ==
  \A id \in StyleIds :
    /\ Cardinality(WithId(id)) <= 1
    /\ \A k \in WithId(id) : document.styles[k].css = lastInjected[id]


\* ------------------------------------------------------------ fingerprint
\* a page summary is presented as a sequence of element-type counts, in
\* the order the sender enumerated them
ElementTypes == {"div", "nav", "p"}
TypeCode(tag) == CASE tag = "div" -> 1 [] tag = "nav" -> 2 [] tag = "p" -> 3

Entries == [tag : ElementTypes, count : 1..2]

Summaries ==
  UNION { { q \in [1..n -> Entries] :
              \A a, b \in 1..n : a # b => q[a].tag # q[b].tag } :
          n \in 0..MaxSummary }

\* variant that hashes the summary in the order it was presented
Canonicalize_AsPresented(summary) ==
  summary

\* the summary sorted by element type before hashing
Canonicalize(summary) ==
  SortSeq(summary, LAMBDA a, b : TypeCode(a.tag) < TypeCode(b.tag))

\* digests are strings of four hexadecimal digits
DigestSpace == 65536

\* a polynomial hash over the entries, in sequence order
RECURSIVE Hash(_, _)
Hash(q, k) ==
  IF k = 0 THEN 7
  ELSE (Hash(q, k - 1) * 31 + TypeCode(q[k].tag) * 4 + q[k].count) % DigestSpace

Fingerprint(summary) ==
  LET q == Canonicalize(summary) IN Hash(q, Len(q))

\* GENERATE_STYLE with payload.domDigest the fingerprint of the page
\* (lines 300-311)
ReceiveGenerate(domain, summary) ==
  /\ Len(reqs) < MaxReq
  /\ reqs' = Append(reqs, [onMessage("GENERATE_STYLE", domain, TRUE) EXCEPT
                             !.summary = summary,
                             !.domDigest = Fingerprint(summary)])
  /\ UNCHANGED <<tabVars, pageVars, uiVars, sites, now, generatorLoaded, settings>>

\* the fingerprints of the pages of the requests that arrive; what the
\* handler then does with a request does not touch its domDigest
NextFingerprint ==
  \E d \in Domains, summary \in Summaries : ReceiveGenerate(d, summary)

SpecFingerprint == Init /\ [][NextFingerprint]_vars

\* the entries of a summary, whatever their order
EntrySet(q) == {q[k] : k \in 1..Len(q)}

\* C25: two summaries with the same entries, presented in any order, have
\* the same digest, and every summary, the empty one included, has a digest
\* of the digest space.
C25_FingerprintOrderInsensitive ==
  \A i, j \in Reqs :
    /\ reqs[i].type = "GENERATE_STYLE" => reqs[i].domDigest \in 0..(DigestSpace - 1)
    /\ ( /\ reqs[i].type = "GENERATE_STYLE"
         /\ reqs[j].type = "GENERATE_STYLE"
         /\ EntrySet(reqs[i].summary) = EntrySet(reqs[j].summary) )
       => reqs[i].domDigest = reqs[j].domDigest

C25_Witness ==
  \E i, j \in Reqs :
    /\ reqs[i].summary # reqs[j].summary
    /\ Len(reqs[i].summary) = 2
    /\ EntrySet(reqs[i].summary) = EntrySet(reqs[j].summary)
    /\ reqs[i].domDigest = reqs[j].domDigest


\* C31: a setSite write for one domain never changes a field of the record
\* of another domain, however the get and set steps of two setSite calls on
\* different domains interleave.
C31_WritesIsolatedPerDomain ==
  [][ \A i \in 1..MaxReq :
        ( /\ i \in Reqs
          /\ \A j \in Reqs : reqs[j].type \in MessageTypes
          /\ \/ Stores(i)
             \/ reqs[i].pcT = "set" /\ reqs'[i].pcT # "set" )
        => \A e \in Domains \ {reqs[i].domain} : sites'[e] = sites[e] ]_vars


\* ------------------------------------------------ messages without payload
\* APPROVE_STYLE, REJECT_STYLE and REGENERATE_STYLE read
\* message.payload.domain unguarded (lines 229, 243, 257): without a payload
\* object the listener throws a TypeError before any callback is set up and
\* before sendResponse
ReceiveNoPayload(type) ==
  /\ Len(reqs) < MaxReq
  /\ reqs' = Append(reqs, [NewReq(type, NoDomain) EXCEPT
                             !.pc = "crashed", !.valid = FALSE])
  /\ UNCHANGED <<tabVars, pageVars, uiVars, sites, now, generatorLoaded, settings>>

NextListener ==
  \/ Next
  \/ \E type \in {"APPROVE_STYLE", "REJECT_STYLE", "REGENERATE_STYLE"} :
       ReceiveNoPayload(type)

SpecListener == Init /\ [][NextListener]_vars

\* C32: no request is answered twice, and a request of a handled type that
\* waits for no callback any more has been answered exactly once.
C32_ExactlyOneResponse ==
  \A i \in Reqs :
    reqs[i].type \in MessageTypes =>
      /\ reqs[i].nresp <= 1
      /\ Idle(reqs[i]) => reqs[i].nresp = 1


\* ------------------------------------------ APPLY_STYLE on an arbitrary store
NextApply ==
  \/ \E d \in Domains : Receive("APPLY_STYLE", d, TRUE)
  \/ \E i \in 1..MaxReq, delivered \in BOOLEAN : TabAnswers(i, delivered)
  \/ \E i \in 1..MaxReq : TransitionGet(i)
  \/ \E i \in 1..MaxReq : SetSiteGetT(i)
  \/ \E i \in 1..MaxReq : SetSiteSetT(i)
  \/ \E i \in 1..MaxReq : SetSiteGetS(i)
  \/ \E i \in 1..MaxReq : SetSiteSetS(i)

SpecApply == InitStartup /\ [][NextApply]_vars

\* C33: an APPLY_STYLE request with css and a domain that was delivered to
\* the tab and is the only request handled has answered success = true and
\* ends, once its two read-modify-write sequences have completed in
\* whatever order, with cacheStatus 'applied' stored for its domain, with
\* approvalStatus pending if the entry was processing or rejected, and
\* with the approvalStatus it had if the entry was approved or pending.
C33_ApplyStoresBoth ==
  ( /\ Len(reqs) = 1
    /\ reqs[1].type = "APPLY_STYLE"
    /\ reqs[1].pcS = "done"
    /\ Idle(reqs[1]) )
  => /\ reqs[1].resp.success = "true"
     /\ sites[reqs[1].domain].cacheStatus = "applied"
     /\ reqs[1].cur \in {"processing", "rejected"}
          => sites[reqs[1].domain].approvalStatus = "pending"
     /\ reqs[1].cur \in {"approved", "pending"}
          => normalizeApprovalState(sites[reqs[1].domain].approvalStatus)
               = reqs[1].cur


\* ------------------------------------------------------- approval banner
\* variant that offers the banner whatever the approval status is
shouldShowBanner_IgnoresApproval(approvalStatus, cacheStatus, doc) ==
  \/ FirstWithId(doc.styles, "retros-web-style", 1) # 0
  \/ cacheStatus \notin {"", "unknown"}

\* shouldShowBanner(status) (popup.js 767-772); "" is a field the status
\* object does not have
shouldShowBanner(approvalStatus, cacheStatus, doc) ==
  IF approvalStatus = "approved" THEN FALSE
  ELSE \/ FirstWithId(doc.styles, "retros-web-style", 1) # 0
       \/ cacheStatus \notin {"", "unknown"}

\* createApprovalBanner(era) (popup.js 774-993): the two script variables
\* and the banner state afterwards; the new host is appended to the page
createApprovalBanner(host, visible, b) ==
  IF visible \/ host # 0
  THEN [host |-> host, visible |-> visible, banner |-> b]
  ELSE LET n == b.created + 1
       IN  [host |-> n, visible |-> TRUE,
            banner |-> [b EXCEPT !.created = n, !.hosts = @ \cup {n},
                                 !.feedbackHidden = TRUE]]

\* variant that removes the host and leaves the flag as it is
hideApprovalBanner_KeepsVisible(host, visible, b) ==
  IF host = 0
  THEN [host |-> host, visible |-> visible, banner |-> b]
  ELSE [host |-> 0, visible |-> visible,
        banner |-> [b EXCEPT !.hosts = @ \ {host}]]

\* hideApprovalBanner() (popup.js 995-1000)
hideApprovalBanner(host, visible, b) ==
  IF host = 0
  THEN [host |-> host, visible |-> visible, banner |-> b]
  ELSE [host |-> 0, visible |-> FALSE,
        banner |-> [b EXCEPT !.hosts = @ \ {host}]]

\* the three of them become the next state
BannerBecomes(r) ==
  /\ approvalBannerHost' = r.host
  /\ approvalBannerVisible' = r.visible
  /\ banner' = r.banner

popupVars == <<currentDomain, currentEra, feedbackOpen, selectedFeedback, popup>>

\* initApprovalBanner up to its await (popup.js 1002-1008), called when the
\* document is interactive (1034-1038): GET_SITE_STATUS reaches the worker
BannerStart ==
  /\ banner.pc = "start"
  /\ document.ready = "loaded"
  /\ Len(reqs) < MaxReq
  /\ reqs' = Append(reqs, onMessage("GET_SITE_STATUS", banner.domain, TRUE))
  /\ banner' = [banner EXCEPT !.pc = "waiting", !.req = Len(reqs) + 1]
  /\ UNCHANGED <<approvalBannerHost, approvalBannerVisible, popupVars>>
  /\ UNCHANGED <<tabVars, pageVars, sites, now, generatorLoaded, settings>>

\* initApprovalBanner after its await (popup.js 1010-1028)
BannerResumes ==
  /\ banner.pc = "waiting"
  /\ reqs[banner.req].nresp >= 1
  /\ LET resp == reqs[banner.req].resp
         b == [banner EXCEPT
                 !.pc = "done",
                 !.approvalStatus = resp.status,
                 !.cacheStatus = resp.cache,
                 !.era = IF settings.selectedEra # NoEra
                         THEN settings.selectedEra ELSE "Windows 95"]
     IN  IF shouldShowBanner(b.approvalStatus, b.cacheStatus, document)
         THEN BannerBecomes(createApprovalBanner(approvalBannerHost,
                                                 approvalBannerVisible, b))
         ELSE /\ banner' = IF b.approvalStatus # "approved"
                           THEN [b EXCEPT !.observer = "observing"]
                           ELSE b
              /\ UNCHANGED <<approvalBannerHost, approvalBannerVisible>>
  /\ UNCHANGED popupVars
  /\ UNCHANGED <<tabVars, pageVars, sites, reqs, now, generatorLoaded, settings>>

\* the MutationObserver callback (popup.js 1019-1025), after the page or
\* the content script changed the document
ObserverFires ==
  /\ banner.observer = "observing"
  /\ ~approvalBannerVisible
  /\ shouldShowBanner(banner.approvalStatus, banner.cacheStatus, document)
  /\ BannerBecomes(createApprovalBanner(
                     approvalBannerHost, approvalBannerVisible,
                     [banner EXCEPT !.observer = "disconnected"]))
  /\ UNCHANGED popupVars
  /\ UNCHANGED <<tabVars, pageVars, sites, reqs, now, generatorLoaded, settings>>

\* setTimeout(() => observer.disconnect(), 15000) (popup.js 1027)
ObserverTimeout ==
  /\ banner.observer = "observing"
  /\ banner' = [banner EXCEPT !.observer = "disconnected"]
  /\ UNCHANGED <<approvalBannerHost, approvalBannerVisible, popupVars>>
  /\ UNCHANGED <<tabVars, pageVars, sites, reqs, now, generatorLoaded, settings>>

\* the banner's buttons can be clicked while its host is in the page
BannerInPage == approvalBannerHost # 0 /\ approvalBannerHost \in banner.hosts

\* the close button and the Escape key (popup.js 981-989)
CloseClick ==
  /\ BannerInPage
  /\ BannerBecomes(hideApprovalBanner(approvalBannerHost,
                                      approvalBannerVisible, banner))
  /\ UNCHANGED popupVars
  /\ UNCHANGED <<tabVars, pageVars, sites, reqs, now, generatorLoaded, settings>>

\* the Approve and Reject buttons up to their await (popup.js 956-961,
\* 965-970): the message reaches the worker
BannerClick(type) ==
  /\ BannerInPage
  /\ Len(reqs) < MaxReq
  /\ reqs' = Append(reqs, [onMessage(type, banner.domain, TRUE) EXCEPT
                             !.era = banner.era])
  /\ banner' = [banner EXCEPT
                  !.pending = @ \cup {[req |-> Len(reqs) + 1, type |-> type]}]
  /\ UNCHANGED <<approvalBannerHost, approvalBannerVisible, popupVars>>
  /\ UNCHANGED <<tabVars, pageVars, sites, now, generatorLoaded, settings>>

\* the click handlers after their await (popup.js 962, 971-972):
\* sendRuntimeMessage resolves with whatever the worker answered
ClickAnswered(p) ==
  /\ p \in banner.pending
  /\ reqs[p.req].nresp >= 1
  /\ LET b == [banner EXCEPT !.pending = @ \ {p}]
     IN  IF p.type = "APPROVE_STYLE"
         THEN BannerBecomes(hideApprovalBanner(approvalBannerHost,
                                               approvalBannerVisible, b))
         ELSE /\ banner' = [b EXCEPT !.feedbackHidden = FALSE]
              /\ UNCHANGED <<approvalBannerHost, approvalBannerVisible>>
  /\ UNCHANGED popupVars
  /\ UNCHANGED <<tabVars, pageVars, sites, reqs, now, generatorLoaded, settings>>

\* the Feedback button (popup.js 975-979)
FeedbackClick ==
  /\ BannerInPage
  /\ banner' = [banner EXCEPT !.feedbackHidden = ~@]
  /\ UNCHANGED <<approvalBannerHost, approvalBannerVisible, popupVars>>
  /\ UNCHANGED <<tabVars, pageVars, sites, reqs, now, generatorLoaded, settings>>

\* a page of some domain whose record an earlier run may have left in any
\* state; the content script and the banner script have just been loaded
InitBanner ==
  /\ \E d \in Domains, site \in StoredSites :
       /\ sites = [e \in Domains |-> IF e = d THEN site ELSE NoSite]
       /\ banner = [pc |-> "start", domain |-> d, req |-> 0,
                    approvalStatus |-> "", cacheStatus |-> "", era |-> NoEra,
                    observer |-> "none", hosts |-> {}, created |-> 0,
                    pending |-> {}, feedbackHidden |-> TRUE]
  /\ approvalBannerHost = 0
  /\ approvalBannerVisible = FALSE
  /\ InitPopupState
  /\ reqs = <<>>
  /\ now = 1
  /\ generatorLoaded = TRUE
  /\ settings = [selectedEra |-> NoEra]
  /\ InitTabs
  /\ InitPage

NextBanner ==
  \/ BannerStart
  \/ BannerResumes
  \/ ObserverFires
  \/ ObserverTimeout
  \/ CloseClick
  \/ \E type \in {"APPROVE_STYLE", "REJECT_STYLE"} : BannerClick(type)
  \/ \E p \in banner.pending : ClickAnswered(p)
  \/ FeedbackClick
  \/ \E i \in 1..MaxReq : StatusGet(i)
  \/ \E i \in 1..MaxReq : SetSiteGetS(i)
  \/ \E i \in 1..MaxReq : SetSiteSetS(i)
  \/ \E i \in 1..MaxReq : TransitionGet(i)
  \/ \E i \in 1..MaxReq : SetSiteGetT(i)
  \/ \E i \in 1..MaxReq : SetSiteSetT(i)
  \/ InjectMessage("css1", "retros-web-style")
  \/ RootCreated
  \/ DOMContentLoaded

SpecBanner == InitBanner /\ [][NextBanner]_vars

\* C34: when GET_SITE_STATUS reported approved at banner initialisation,
\* no banner exists and no mutation observer was installed, whatever the
\* content script injects afterwards.
C34_NoBannerWhenApproved ==
  (banner.pc = "done" /\ banner.approvalStatus = "approved")
    => /\ approvalBannerHost = 0
       /\ ~approvalBannerVisible
       /\ banner.hosts = {}
       /\ banner.created = 0
       /\ banner.observer = "none"

\* the approved page has been styled after the banner script decided
C34_Witness ==
  /\ banner.pc = "done"
  /\ banner.approvalStatus = "approved"
  /\ banner.cacheStatus = "applied"
  /\ FirstWithId(document.styles, "retros-web-style", 1) # 0
  /\ banner.hosts = {}

\* C35: the page holds at most one banner host, and approvalBannerVisible
\* is true exactly when approvalBannerHost is not null.
C35_AtMostOneBanner ==
  /\ Cardinality(banner.hosts) <= 1
  /\ approvalBannerVisible <=> approvalBannerHost # 0
  /\ approvalBannerHost # 0 => banner.hosts = {approvalBannerHost}

\* a banner was created by the observer and has been hidden again
C35_Witness ==
  /\ banner.observer = "disconnected"
  /\ banner.created = 1
  /\ approvalBannerHost = 0
  /\ ~approvalBannerVisible
  /\ banner.hosts = {}

\* C36: a click on Approve whose APPROVE_STYLE was answered success=false
\* leaves the banner as visible as it was.
C36_RefusedApproveKeepsBanner ==
  [][ \A p \in banner.pending :
        ( /\ p.type = "APPROVE_STYLE"
          /\ p \notin banner'.pending
          /\ reqs[p.req].resp.success = "false" )
        => /\ approvalBannerVisible' = approvalBannerVisible
           /\ banner'.hosts = banner.hosts ]_vars


\* ------------------------------------------------------ popup: era cards
bannerVars == <<approvalBannerHost, approvalBannerVisible, banner>>

\* String.prototype.toLowerCase on the strings the popup handles
toLowerCase(str) ==
  CASE str = "Win95" -> "win95"
    [] str = "Win98" -> "win98"
    [] str = "WinXP" -> "winxp"
    [] str = "Not selected" -> "not selected"
    [] OTHER -> str

\* the DOMContentLoaded listeners of the popup (popup.js 23-26, 216-219):
\* initializePopup sends GET_CURRENT_TAB, initEraSelection is deferred
PopupLoaded ==
  /\ popup.pc = "start"
  /\ popup' = [popup EXCEPT !.pc = "tab", !.eraInit = "pending"]
  /\ UNCHANGED <<currentDomain, currentEra, feedbackOpen, selectedFeedback>>
  /\ UNCHANGED <<tabVars, pageVars, bannerVars, sites, reqs, now,
                 generatorLoaded, settings>>

\* GET_CURRENT_TAB is answered (popup.js 34-62): with the tab's domain,
\* with success=false, or sendMessage rejects and the catch block runs
PopupTabAnswer(outcome, domain) ==
  /\ popup.pc = "tab"
  /\ currentDomain' = IF outcome = "ok" THEN domain ELSE currentDomain
  /\ popup' = [popup EXCEPT !.pc = CASE outcome = "ok" -> "status"
                                     [] outcome = "fail" -> "settings"
                                     [] OTHER -> "done"]
  /\ UNCHANGED <<currentEra, feedbackOpen, selectedFeedback>>
  /\ UNCHANGED <<tabVars, pageVars, bannerVars, sites, reqs, now,
                 generatorLoaded, settings>>

\* GET_SITE_STATUS is answered or rejected (popup.js 43-59): the inner
\* try/catch lets initializePopup go on either way
PopupStatusAnswer ==
  /\ popup.pc = "status"
  /\ popup' = [popup EXCEPT !.pc = "settings"]
  /\ UNCHANGED <<currentDomain, currentEra, feedbackOpen, selectedFeedback>>
  /\ UNCHANGED <<tabVars, pageVars, bannerVars, sites, reqs, now,
                 generatorLoaded, settings>>

\* GET_SETTINGS is answered with the stored settings (popup.js 65-75,
\* background.js 214-219), or sendMessage rejects; setupEventListeners runs
PopupSettingsAnswer(ok) ==
  /\ popup.pc = "settings"
  /\ currentEra' = IF ~ok THEN currentEra
                   ELSE IF settings.selectedEra # NoEra
                        THEN settings.selectedEra ELSE "Not selected"
  /\ popup' = [popup EXCEPT !.pc = "done",
                            !.answered = IF ok THEN settings.selectedEra ELSE @]
  /\ UNCHANGED <<currentDomain, feedbackOpen, selectedFeedback>>
  /\ UNCHANGED <<tabVars, pageVars, bannerVars, sites, reqs, now,
                 generatorLoaded, settings>>

\* initEraSelection (popup.js 134-148): the cards checked afterwards
initEraSelection(era) ==
  LET initial == IF era # "" THEN toLowerCase(era) ELSE "90s"
  IN  {k \in Cards : toLowerCase(EraCards[k]) = initial}

\* the timer of popup.js 218 fires
EraTimer ==
  /\ popup.eraInit = "pending"
  /\ popup' = [popup EXCEPT !.eraInit = "done",
                            !.checked = initEraSelection(currentEra)]
  /\ UNCHANGED <<currentDomain, currentEra, feedbackOpen, selectedFeedback>>
  /\ UNCHANGED <<tabVars, pageVars, bannerVars, sites, reqs, now,
                 generatorLoaded, settings>>

\* a click on an era card (popup.js 150-157)
EraClick(k) ==
  /\ popup.eraInit = "done"
  /\ popup' = [popup EXCEPT !.checked = {k},
                            !.lastEvent = [card |-> k, key |-> "click"]]
  /\ currentEra' = EraCards[k]
  /\ UNCHANGED <<currentDomain, feedbackOpen, selectedFeedback>>
  /\ UNCHANGED <<tabVars, pageVars, bannerVars, sites, reqs, now,
                 generatorLoaded, settings>>

ArrowKeys == {"ArrowRight", "ArrowDown", "ArrowLeft", "ArrowUp"}
EraKeys == ArrowKeys \cup {"Enter", "Tab"}

\* variant that stops at the last and at the first card
handleEraKeydown_Stops(idx, key) ==
  LET n == Len(EraCards) IN
  CASE key \in {"ArrowRight", "ArrowDown"} -> IF idx = n THEN n ELSE idx + 1
    [] key \in {"ArrowLeft", "ArrowUp"} -> IF idx = 1 THEN 1 ELSE idx - 1
    [] key = "Enter" -> idx
    [] OTHER -> 0

\* handleEraKeydown (popup.js 193-213): the card that becomes the checked
\* one, 0 when the key is not handled; idx is the card's position in
\* eraOptions, counted from 1 here and from 0 in the source
handleEraKeydown(idx, key) ==
  LET n == Len(EraCards) IN
  CASE key \in {"ArrowRight", "ArrowDown"} -> (((idx - 1) + 1) % n) + 1
    [] key \in {"ArrowLeft", "ArrowUp"} -> (((idx - 1) - 1 + n) % n) + 1
    [] key = "Enter" -> idx
    [] OTHER -> 0

\* a key is pressed on the card that has the keyboard focus: the checked
\* one, the only card with tabIndex 0, focused by setEraSelected (181-191).
\* Enter clicks the card, which also updates currentEra
EraKeydown(k, key) ==
  /\ popup.eraInit = "done"
  /\ k \in popup.checked
  /\ LET next == handleEraKeydown(k, key)
     IN  /\ popup' = [popup EXCEPT
                        !.checked = IF next = 0 THEN @ ELSE {next},
                        !.lastEvent = [card |-> k, key |-> key]]
         /\ currentEra' = IF key = "Enter" THEN EraCards[k] ELSE currentEra
  /\ UNCHANGED <<currentDomain, feedbackOpen, selectedFeedback>>
  /\ UNCHANGED <<tabVars, pageVars, bannerVars, sites, reqs, now,
                 generatorLoaded, settings>>

\* "Set as Default" (popup.js 163-177): SET_SETTING with the data-era of the
\* first checked card reaches the worker
SetDefaultClick ==
  /\ popup.eraInit = "done"
  /\ popup.checked # {}
  /\ Len(reqs) < MaxReq
  /\ LET k == CHOOSE c \in popup.checked : \A e \in popup.checked : c <= e
     IN  reqs' = Append(reqs, [NewReq("SET_SETTING", NoDomain) EXCEPT
                                 !.pc = "kget", !.value = EraCards[k]])
  /\ UNCHANGED popupVars
  /\ UNCHANGED <<tabVars, pageVars, bannerVars, sites, now,
                 generatorLoaded, settings>>

\* the popup is opened; an earlier popup may have stored an era, and the
\* markup has at most one card checked
InitPopup ==
  /\ sites = EmptySites
  /\ reqs = <<>>
  /\ now = 1
  /\ generatorLoaded = TRUE
  /\ \E era \in {NoEra} \cup {EraCards[k] : k \in Cards} :
       settings = [selectedEra |-> era]
  /\ InitTabs
  /\ InitPage
  /\ InitBannerState
  /\ currentDomain = NoDomain
  /\ currentEra = ""
  /\ feedbackOpen = FALSE
  /\ selectedFeedback = Absent
  /\ \E markup \in {{}} \cup {{k} : k \in Cards} :
       popup = [NewPopup EXCEPT !.checked = markup]

NextPopup ==
  \/ PopupLoaded
  \/ \E outcome \in {"ok", "fail", "error"}, d \in Domains :
       PopupTabAnswer(outcome, d)
  \/ PopupStatusAnswer
  \/ \E ok \in BOOLEAN : PopupSettingsAnswer(ok)
  \/ EraTimer
  \/ \E k \in Cards : EraClick(k)
  \/ \E k \in Cards, key \in EraKeys : EraKeydown(k, key)
  \/ SetDefaultClick
  \/ \E i \in 1..MaxReq : SettingGet(i)
  \/ \E i \in 1..MaxReq : SettingSet(i)

SpecPopup == InitPopup /\ [][NextPopup]_vars

\* the card after and before card k, wrapping around
CardAfter(k) == IF k = Len(EraCards) THEN 1 ELSE k + 1
CardBefore(k) == IF k = 1 THEN Len(EraCards) ELSE k - 1

\* C38: at most one era card is checked; after a click on a card exactly
\* that card is, and after an arrow key on a card exactly the next
\* (ArrowRight, ArrowDown) or the previous (ArrowLeft, ArrowUp) card is,
\* wrapping around at both ends.
C38_EraRadioGroup ==
  /\ Cardinality(popup.checked) <= 1
  /\ LET e == popup.lastEvent IN
     /\ e.key \in {"click", "Enter"} => popup.checked = {e.card}
     /\ e.key \in {"ArrowRight", "ArrowDown"} => popup.checked = {CardAfter(e.card)}
     /\ e.key \in {"ArrowLeft", "ArrowUp"} => popup.checked = {CardBefore(e.card)}

\* ArrowRight on the last card has checked the first one
C38_Witness ==
  /\ popup.lastEvent = [card |-> Len(EraCards), key |-> "ArrowRight"]
  /\ popup.checked = {1}

\* the card whose data-era is the given string
CardOf(era) == {k \in Cards : EraCards[k] = era}

\* C39: once initializePopup and initEraSelection have both run and no card
\* has been clicked or keyed yet, the checked card is the card of the
\* stored era that GET_SETTINGS answered, or the '90s' card when no era is
\* stored.
C39_EraFromSetting ==
  ( /\ popup.pc = "done"
    /\ popup.eraInit = "done"
    /\ popup.answered # "none"
    /\ popup.lastEvent = NoEvent )
  => popup.checked = IF popup.answered # NoEra THEN CardOf(popup.answered)
                     ELSE CardOf("90s")


\* -------------------------------------------------- popup: feedback form
\* the length above which the counter warns (popup.js 350)
CounterWarnAt == 180

\* values of the textarea, around the two thresholds; a text of one blank
\* stands for the texts that trim() empties
FormTexts ==
  {EmptyText, [len |-> 1, blank |-> TRUE]} \cup
  {[len |-> n, blank |-> FALSE] :
     n \in {1, CounterWarnAt, CounterWarnAt + 1, FeedbackTextCap - 1,
            FeedbackTextCap}}

\* String.prototype.trim: the length that is left
trim(text) == IF text.blank THEN 0 ELSE text.len

\* updateCharCounter (popup.js 341-359): the counter's text and the
\* classes of .char-counter afterwards
updateCharCounter(text, classes) ==
  LET remaining == text.len IN
  [counter |-> remaining,
   classes |-> IF remaining > CounterWarnAt
               THEN (classes \cup {"warning"}) \ {"error"}
               ELSE IF remaining = FeedbackTextCap
                    THEN (classes \cup {"error"}) \ {"warning"}
                    ELSE classes \ {"warning", "error"}]

\* variant that leaves the other buttons selected
handleFeedbackPreset_KeepsOthers(selected, feedback, button) ==
  IF button \in selected
  THEN [selected |-> selected \ {button}, feedback |-> Absent]
  ELSE [selected |-> selected \cup {button}, feedback |-> button]

\* handleFeedbackPreset(button) (popup.js 317-336): the selected buttons
\* and selectedFeedback afterwards; a button is named by its data-feedback
handleFeedbackPreset(selected, feedback, button) ==
  IF button \in selected
  THEN [selected |-> selected \ {button}, feedback |-> Absent]
  ELSE [selected |-> {button}, feedback |-> button]

\* closeFeedback() (popup.js 290-304)
closeFeedback(pop) ==
  LET c == updateCharCounter(EmptyText, pop.classes)
  IN  [pop EXCEPT !.selected = {}, !.text = EmptyText,
                  !.counter = c.counter, !.classes = c.classes]

\* the Reject button, or the Feedback button while the form is closed
\* (popup.js 260-263, 268-285)
OpenFeedback ==
  /\ popup.pc = "done"
  /\ ~feedbackOpen
  /\ feedbackOpen' = TRUE
  /\ UNCHANGED <<currentDomain, currentEra, selectedFeedback, popup>>
  /\ UNCHANGED <<tabVars, pageVars, bannerVars, sites, reqs, now,
                 generatorLoaded, settings>>

\* the Feedback button or the Escape key while the form is open
\* (popup.js 119-121, 268-271)
CloseFeedback ==
  /\ popup.pc = "done"
  /\ feedbackOpen
  /\ feedbackOpen' = FALSE
  /\ selectedFeedback' = Absent
  /\ popup' = closeFeedback(popup)
  /\ UNCHANGED <<currentDomain, currentEra>>
  /\ UNCHANGED <<tabVars, pageVars, bannerVars, sites, reqs, now,
                 generatorLoaded, settings>>

\* a click on a preset button of the open form (popup.js 98-100)
PresetClick(button) ==
  /\ popup.pc = "done"
  /\ feedbackOpen
  /\ LET r == handleFeedbackPreset(popup.selected, selectedFeedback, button)
     IN  /\ popup' = [popup EXCEPT !.selected = r.selected]
         /\ selectedFeedback' = r.feedback
  /\ UNCHANGED <<currentDomain, currentEra, feedbackOpen>>
  /\ UNCHANGED <<tabVars, pageVars, bannerVars, sites, reqs, now,
                 generatorLoaded, settings>>

\* the user edits the textarea of the open form: the input listener
\* (popup.js 103) updates the counter
InputText(text) ==
  /\ popup.pc = "done"
  /\ feedbackOpen
  /\ text # popup.text
  /\ LET c == updateCharCounter(text, popup.classes)
     IN  popup' = [popup EXCEPT !.text = text, !.counter = c.counter,
                                !.classes = c.classes]
  /\ UNCHANGED <<currentDomain, currentEra, feedbackOpen, selectedFeedback>>
  /\ UNCHANGED <<tabVars, pageVars, bannerVars, sites, reqs, now,
                 generatorLoaded, settings>>

\* regenerateStyle up to its await (popup.js 364-394), for a popup that
\* knows its domain: the validation passes, the button is disabled and
\* REGENERATE_STYLE reaches the worker
RegenerateClick ==
  /\ popup.pc = "done"
  /\ feedbackOpen
  /\ popup.regen = {}
  /\ currentDomain \in Domains
  /\ selectedFeedback # Absent \/ trim(popup.text) > 0
  /\ Len(reqs) < MaxReq
  /\ reqs' = Append(reqs, [onMessage("REGENERATE_STYLE", currentDomain, TRUE)
                             EXCEPT !.feedback = "given",
                                    !.textLen = trim(popup.text)])
  /\ popup' = [popup EXCEPT !.regen = {Len(reqs) + 1}]
  /\ UNCHANGED <<currentDomain, currentEra, feedbackOpen, selectedFeedback>>
  /\ UNCHANGED <<tabVars, pageVars, bannerVars, sites, now,
                 generatorLoaded, settings>>

\* regenerateStyle after its await (popup.js 396-414): the form is closed
\* when the worker answered success
RegenerateAnswered(i) ==
  /\ i \in popup.regen
  /\ reqs[i].nresp >= 1
  /\ IF reqs[i].resp.success = "true"
     THEN /\ feedbackOpen' = FALSE
          /\ selectedFeedback' = Absent
          /\ popup' = [closeFeedback(popup) EXCEPT !.regen = {}]
     ELSE /\ popup' = [popup EXCEPT !.regen = {}]
          /\ UNCHANGED <<feedbackOpen, selectedFeedback>>
  /\ UNCHANGED <<currentDomain, currentEra>>
  /\ UNCHANGED <<tabVars, pageVars, bannerVars, sites, reqs, now,
                 generatorLoaded, settings>>

NextForm ==
  \/ PopupLoaded
  \/ \E outcome \in {"ok", "fail", "error"}, d \in Domains :
       PopupTabAnswer(outcome, d)
  \/ PopupStatusAnswer
  \/ \E ok \in BOOLEAN : PopupSettingsAnswer(ok)
  \/ EraTimer
  \/ OpenFeedback
  \/ CloseFeedback
  \/ \E button \in FeedbackPresets : PresetClick(button)
  \/ \E text \in FormTexts : InputText(text)
  \/ RegenerateClick
  \/ \E i \in 1..MaxReq : RegenerateAnswered(i)
  \/ \E i \in 1..MaxReq : TransitionGet(i)
  \/ \E i \in 1..MaxReq : SetSiteGetT(i)
  \/ \E i \in 1..MaxReq : SetSiteSetT(i)
  \/ \E i \in 1..MaxReq : SetSiteGetS(i)
  \/ \E i \in 1..MaxReq : SetSiteSetS(i)
  \/ \E i \in 1..MaxReq, outcome \in GenOutcomes : GenerateSettles(i, outcome)
  \/ \E i \in 1..MaxReq, delivered \in BOOLEAN : TabAnswers(i, delivered)

\* the popup is opened on an empty store
InitForm ==
  /\ sites = EmptySites
  /\ reqs = <<>>
  /\ now = 1
  /\ generatorLoaded = TRUE
  /\ settings = [selectedEra |-> NoEra]
  /\ InitTabs
  /\ InitPage
  /\ InitUI

SpecForm == InitForm /\ [][NextForm]_vars

\* C37: at most one preset button is selected, selectedFeedback is the
\* data-feedback of the selected button or null when none is, and a
\* closed form has no selection and an empty text.
C37_PresetSingleSelect ==
  /\ Cardinality(popup.selected) <= 1
  /\ popup.selected = {} => selectedFeedback = Absent
  /\ \A b \in popup.selected : selectedFeedback = b
  /\ ~feedbackOpen =>
       /\ popup.selected = {}
       /\ selectedFeedback = Absent
       /\ popup.text = EmptyText

\* a form that a successful regeneration closed has been opened again
\* and a preset chosen in it
C37_Witness ==
  /\ feedbackOpen
  /\ popup.selected = {"too_simple"}
  /\ selectedFeedback = "too_simple"
  /\ \E i \in Reqs : /\ reqs[i].type = "REGENERATE_STYLE"
                     /\ reqs[i].resp.success = "true"
                     /\ i \notin popup.regen

\* C40: the counter shows the length of the text, with no class up to
\* 180, class warning alone from 181 to 199 and class error alone at 200.
C40_CounterClasses ==
  /\ popup.counter = popup.text.len
  /\ popup.text.len <= CounterWarnAt => popup.classes = {}
  /\ ( /\ popup.text.len > CounterWarnAt
       /\ popup.text.len < FeedbackTextCap ) => popup.classes = {"warning"}
  /\ popup.text.len = FeedbackTextCap => popup.classes = {"error"}
====
